---- MODULE Spec2Model ----
(***************************************************************************)
(* "Bugger": a Frogger variant.  The model follows the CONFIG-based app.js *)
(* (settings closure of configModule.js, Enemy / Player / TextEntity and   *)
(* setOrResetGameObjects of app.js).  Positions are native pixels.  One    *)
(* frame of the engine is split in its three passes (obstacle updates,     *)
(* player update, collision pass over the obstacle array); JavaScript runs *)
(* one handler at a time, so the key and button handlers fire only between *)
(* frames (pc = "idle").                                                   *)
(***************************************************************************)
EXTENDS Integers, Sequences, FiniteSets, TLC

VARIABLES
    settings,      \* CONFIG's private settings object
    player,        \* the global Player instance: [x, y]
    allEnemies,    \* the global array of Enemy instances: [x, y, speed]
    streak,        \* value of the "Current Streak" TextEntity
    wins,          \* value of the "Total Wins" TextEntity
    deaths,        \* value of the "Total Deaths" TextEntity
    pendingReset,  \* set by the button callbacks
    pc,            \* position inside the frame: "idle", "player", "collide"
    idx,           \* index of the obstacle the collision pass looks at (0 outside the pass)
    result,        \* record of the last recorded call: its name, arguments, return value
    upCount,       \* number of 'up' key inputs handled (scenario runs only)
    clicks,        \* button clicks since the last reset of the game objects
    goal,          \* history: a key input has put the player in row 0 since the
                   \* last player pass or reset
    successes,     \* history: success transitions since the last failure
                   \* transition, reset or start of the game
    tickStart      \* history of the last frame: wins and deaths when it started,
                   \* the dt it was given, and the number of obstacles on the
                   \* player when its collision pass started

vars == <<settings, player, allEnemies, streak, wins, deaths, pendingReset,
          pc, idx, result, upCount, clicks, goal, successes, tickStart>>

(***************************** bounds **************************************)
\* Frames stop once wins + deaths reached this value.
MaxCount == 2
\* Most button clicks explored between two resets of the game objects.
MaxClicks == 1
\* Most 'up' inputs of a scenario run.
MaxUps == 8
\* Largest horizontal / vertical offset between the two entities handed to
\* checkCollision when it is called directly.
SpanX == 75
SpanY == 22

\* The configurations the game runs explore.
GameLaneCounts == 1 .. 2
GameColCounts == 1 .. 2
GameEnemyCounts == 0 .. 2
GameDifficulties == 1 .. 2
\* Width and height left to the canvas in the browser window (clientWidth,
\* clientHeight - canvas.offsetTop): no width, narrower than the native
\* canvas, lower than it, and larger than it.
Viewports == {<<0, 4000>>, <<101, 4000>>, <<4000, 293>>, <<4000, 4000>>}

(********************** tileset constants (settings) ***********************)
colWidth == 101
rowHeight == 83
tileBottom == 37
tileTop == 51
tileHeight == 171
dy == -26

\* Upper limits of the increment setters.
MaxNumLanes == 10
MaxNumCols == 20
MaxNumEnemies == 20
MaxGameDifficulty == 20

(************************** fractional numbers *****************************)
\* The scaling factor and everything multiplied by it are fractions in the
\* code (floating-point numbers); here they are exact fractions num / den in
\* lowest terms, den > 0, so that equal numbers are equal records.
RECURSIVE GCD(_, _)
GCD(a, b) == IF b = 0 THEN a ELSE GCD(b, a % b)

Rat(n, d) ==
    LET g == GCD(IF n < 0 THEN -n ELSE n, d)
    IN  [num |-> n \div g, den |-> d \div g]

\* q * k for a fraction q and a whole number k.
RatTimes(q, k) == Rat(q.num * k, q.den)

\* p > q
RatGreater(p, q) == p.num * q.den > q.num * p.den

\* The scaling factors handed to setScalingFactor by a direct call.
Scales == {Rat(1, 2), Rat(1, 1), Rat(2, 1), Rat(3, 1)}

\* tickStart before the first frame, and after a reset.
NoTick == [wins |-> 0, deaths |-> 0, dt |-> Rat(0, 1), hits |-> 0]

\* Seconds between two frames of a game run: half a second and a second.
\* With these and the speeds, multiples of 50, every product dt * speed and
\* every position is a whole number, which the doubles of the code hold
\* exactly.
DtChoices == {Rat(1, 2), Rat(1, 1)}

(************************ double-precision numbers *************************)
\* Where the elapsed time is a number of milliseconds over 1000, the products
\* and sums of Enemy.prototype.update are not exact: they are the doubles
\* nearest to the exact values.  These are computed here on whole numbers of
\* up to LimbCount * 15 bits, each the sequence of its digits in base 2^15,
\* lowest first.
LimbBase == 2^15
LimbCount == 6
LimbRange == 1 .. LimbCount
\* The function f on LimbRange as a sequence of digits.
Digits(f) == SubSeq(f, 1, LimbCount)

\* The digits of a whole number 0 <= n < 2^31.
Limbs(n) ==
    Digits([i \in LimbRange |->
        CASE i = 1 -> n % LimbBase
          [] i = 2 -> (n \div LimbBase) % LimbBase
          [] i = 3 -> n \div (LimbBase * LimbBase)
          [] OTHER -> 0])

\* The digits of the number whose i-th digit is f[i], digits of f being any
\* whole numbers below 2^30: the carries are passed upwards.
Carried(f) ==
    LET carry[i \in 1 .. LimbCount] ==
            IF i = 1 THEN 0 ELSE (f[i - 1] + carry[i - 1]) \div LimbBase
    IN  Digits([i \in LimbRange |-> (f[i] + carry[i]) % LimbBase])

BigPlus(a, b) == Carried([i \in LimbRange |-> a[i] + b[i]])
\* a - b for a >= b.
BigMinus(a, b) ==
    Carried([i \in LimbRange |->
                a[i] + (LimbBase - 1 - b[i]) + (IF i = 1 THEN 1 ELSE 0)])
\* a * k for a whole number 0 <= k < 2^15.
BigTimes(a, k) == Carried([i \in LimbRange |-> a[i] * k])
BigIsZero(a) == \A i \in LimbRange : a[i] = 0
BigLess(a, b) ==
    \E i \in LimbRange :
        /\ a[i] < b[i]
        /\ \A j \in (i + 1) .. LimbCount : a[j] = b[j]
\* The number of bits of a: 0 for 0, else 1 + floor(log2(a)).
BigBits(a) ==
    IF BigIsZero(a) THEN 0
    ELSE LET top == CHOOSE i \in LimbRange :
                       a[i] # 0 /\ \A j \in (i + 1) .. LimbCount : a[j] = 0
         IN  15 * (top - 1) + (CHOOSE n \in 1 .. 15 : 2^(n - 1) <= a[top] /\ a[top] < 2^n)
\* a * 2^s.
BigShiftLeft(a, s) ==
    LET t == BigTimes(a, 2^(s % 15))
        q == s \div 15
    IN  Digits([i \in LimbRange |-> IF i - q >= 1 THEN t[i - q] ELSE 0])
\* floor(a / 2^s).
BigShiftRight(a, s) ==
    LET q == s \div 15
        r == s % 15
        at(i) == IF i <= LimbCount THEN a[i] ELSE 0
    IN  Digits([i \in LimbRange |->
            (at(i + q) \div 2^r) + (at(i + q + 1) % 2^r) * 2^(15 - r)])
\* floor(a / k) for a whole number 0 < k < 2^15, with the remainder.
BigOver(a, k) ==
    LET rem[i \in 1 .. LimbCount + 1] ==
            IF i = LimbCount + 1 THEN 0
            ELSE (rem[i + 1] * LimbBase + a[i]) % k
    IN  [quotient  |-> Digits([i \in LimbRange |-> (rem[i + 1] * LimbBase + a[i]) \div k]),
         remainder |-> rem[1]]

\* A double is +/- mant * 2^exp with mant a whole number below 2^53, odd
\* unless the double is 0.  DoubleRound(neg, m, e) is the double nearest to
\* +/- m * 2^e, the one with the even mantissa when two are as near (the
\* rounding of IEEE 754 that every operation of the language applies).
DoubleRound(neg, m, e) ==
    LET bits == BigBits(m)
        cut == IF bits > 53 THEN bits - 53 ELSE 0
        kept == BigShiftRight(m, cut)
        half == cut > 0 /\ BigShiftRight(m, cut - 1)[1] % 2 = 1
        below == cut > 1 /\ BigShiftLeft(BigShiftRight(m, cut - 1), cut - 1) # m
        up == half /\ (below \/ kept[1] % 2 = 1)
        rounded == IF up THEN BigPlus(kept, Limbs(1)) ELSE kept
        low == CHOOSE i \in LimbRange :
                  rounded[i] # 0 /\ \A j \in 1 .. (i - 1) : rounded[j] = 0
        zeros == 15 * (low - 1) +
                 (CHOOSE n \in 0 .. 14 : rounded[low] % 2^(n + 1) # 0 /\ rounded[low] % 2^n = 0)
    IN  IF BigIsZero(m)
        THEN [neg |-> FALSE, mant |-> m, exp |-> 0]
        ELSE [neg |-> neg, mant |-> BigShiftRight(rounded, zeros), exp |-> e + cut + zeros]

\* The double of a whole number -2^31 < n < 2^31.
DoubleOf(n) == DoubleRound(n < 0, Limbs(IF n < 0 THEN -n ELSE n), 0)

\* a - b without rounding: sign, digits and exponent of the difference.
ExactMinus(a, b) ==
    LET e == IF a.exp < b.exp THEN a.exp ELSE b.exp
        x == BigShiftLeft(a.mant, a.exp - e)
        y == BigShiftLeft(b.mant, b.exp - e)
    IN  IF a.neg # b.neg
        THEN [neg |-> a.neg, mant |-> BigPlus(x, y), exp |-> e]
        ELSE IF BigLess(x, y)
             THEN [neg |-> ~a.neg, mant |-> BigMinus(y, x), exp |-> e]
             ELSE [neg |-> a.neg, mant |-> BigMinus(x, y), exp |-> e]

DoubleNegated(a) == IF BigIsZero(a.mant) THEN a ELSE [a EXCEPT !.neg = ~@]
\* a + b, a < b and a * k (k a whole number, 0 <= k < 2^15) on doubles.
DoublePlus(a, b) ==
    LET d == ExactMinus(a, DoubleNegated(b)) IN DoubleRound(d.neg, d.mant, d.exp)
DoubleLess(a, b) ==
    LET d == ExactMinus(a, b) IN d.neg /\ ~BigIsZero(d.mant)
DoubleTimes(a, k) == DoubleRound(a.neg, BigTimes(a.mant, k), a.exp)
\* n / k on doubles, for whole numbers 0 <= n < 2^15 and 0 < k < 2^15.  The
\* quotient is cut after 64 binary places; a last bit says whether anything
\* was cut off.
DoubleOver(n, k) ==
    LET q == BigOver(BigShiftLeft(Limbs(n), 64), k)
        sticky == IF q.remainder = 0 THEN 0 ELSE 1
    IN  DoubleRound(FALSE, BigPlus(BigShiftLeft(q.quotient, 1), Limbs(sticky)), -65)
\* |a - b| <= 2^(-k), for k >= 0.
DoubleWithin(a, b, k) ==
    LET d == ExactMinus(a, b)
    IN  IF d.exp + k >= 0
        THEN ~BigLess(Limbs(1), BigShiftLeft(d.mant, d.exp + k))
        ELSE ~BigLess(BigShiftLeft(Limbs(1), -k - d.exp), d.mant)
\* The double a is a whole number.
DoubleIsWhole(a) == a.exp >= 0
\* The elapsed time the driver hands to a frame that starts ms milliseconds
\* after the frame before: ms / 1000, for 0 <= ms <= 1000.
Seconds(ms) == DoubleOver(ms, 1000)

(******************************* CONFIG ************************************)
\* The settings object before CONFIG.init is called: the tileset constants
\* (defined above) and scale 1; the five tunables are undefined.
NewSettings == [scale |-> Rat(1, 1)]

\* CONFIG.init on the settings s: assigns the five tunables and leaves the
\* scale as it is.
init(s, numLanes, numCols, numEnemies, baseEnemySpeed, gameDifficulty) ==
    [numLanes |-> numLanes, numCols |-> numCols, numEnemies |-> numEnemies,
     baseEnemySpeed |-> baseEnemySpeed, gameDifficulty |-> gameDifficulty,
     scale |-> s.scale]

\* getNumRows that returns the row count computed when CONFIG was initialised.
getNumRowsOfInit(s) == init(s, 4, 7, 10, 200, 4).numLanes + 3

getNumRows(s) == s.numLanes + 3
getNativeCanvasWidth(s) == s.numCols * colWidth
getNativeCanvasHeight(s) == getNumRows(s) * rowHeight + tileTop + tileBottom
getTileHeight(s) == RatTimes(s.scale, tileHeight)
getScalingFactor(s) == s.scale
getNativeColWidth(s) == colWidth
getColWidth(s) == RatTimes(s.scale, colWidth)
getNativeRowHeight(s) == rowHeight
getRowHeight(s) == RatTimes(s.scale, rowHeight)
getNativeDY(s) == dy
getDY(s) == RatTimes(s.scale, dy)
getCanvasWidth(s) == RatTimes(s.scale, getNativeCanvasWidth(s))
\* getCanvasHeight that scales the rows and leaves the two margins unscaled.
getCanvasHeightRowsOnly(s) ==
    Rat(s.scale.num * getNumRows(s) * rowHeight
            + (tileTop + tileBottom) * s.scale.den, s.scale.den)

getCanvasHeight(s) == RatTimes(s.scale, getNativeCanvasHeight(s))
setScalingFactor(s, scale) == [s EXCEPT !.scale = scale]
\* getPlayerStartCol that rounds up (Math.ceil for Math.floor).
getPlayerStartColCeil(s) == (s.numCols + 1) \div 2

getPlayerStartCol(s) == s.numCols \div 2
\* getPlayerStartRow that returns the last lane row.
getPlayerStartRowInLane(s) == getNumRows(s) - 3

getPlayerStartRow(s) == getNumRows(s) - 1

incrementGameDifficulty(s) ==
    IF s.gameDifficulty < MaxGameDifficulty
    THEN [s EXCEPT !.gameDifficulty = @ + 1] ELSE s
decrementGameDifficulty(s) ==
    IF s.gameDifficulty > 1 THEN [s EXCEPT !.gameDifficulty = @ - 1] ELSE s
incrementNumEnemies(s) ==
    IF s.numEnemies < MaxNumEnemies THEN [s EXCEPT !.numEnemies = @ + 1] ELSE s
\* decrementNumEnemies with the limit test off by one (>= for >).
decrementNumEnemiesBelowZero(s) ==
    IF s.numEnemies >= 0 THEN [s EXCEPT !.numEnemies = @ - 1] ELSE s

decrementNumEnemies(s) ==
    IF s.numEnemies > 0 THEN [s EXCEPT !.numEnemies = @ - 1] ELSE s
incrementNumLanes(s) ==
    IF s.numLanes < MaxNumLanes THEN [s EXCEPT !.numLanes = @ + 1] ELSE s
decrementNumLanes(s) ==
    IF s.numLanes > 1 THEN [s EXCEPT !.numLanes = @ - 1] ELSE s
\* incrementNumCols with the limit test off by one (<= for <).
incrementNumColsOffByOne(s) ==
    IF s.numCols <= MaxNumCols THEN [s EXCEPT !.numCols = @ + 1] ELSE s

incrementNumCols(s) ==
    IF s.numCols < MaxNumCols THEN [s EXCEPT !.numCols = @ + 1] ELSE s
decrementNumCols(s) ==
    IF s.numCols > 1 THEN [s EXCEPT !.numCols = @ - 1] ELSE s

\* What the setters return: <<v>> is the value v of "return ++settings.f" or
\* "return --settings.f", << >> the undefined of a call that falls off the end
\* of the function.
incrementGameDifficultyReturn(s) ==
    IF s.gameDifficulty < MaxGameDifficulty THEN <<s.gameDifficulty + 1>> ELSE << >>
decrementGameDifficultyReturn(s) ==
    IF s.gameDifficulty > 1 THEN <<s.gameDifficulty - 1>> ELSE << >>
incrementNumEnemiesReturn(s) ==
    IF s.numEnemies < MaxNumEnemies THEN <<s.numEnemies + 1>> ELSE << >>
decrementNumEnemiesReturn(s) ==
    IF s.numEnemies > 0 THEN <<s.numEnemies - 1>> ELSE << >>
incrementNumLanesReturn(s) ==
    IF s.numLanes < MaxNumLanes THEN <<s.numLanes + 1>> ELSE << >>
decrementNumLanesReturn(s) ==
    IF s.numLanes > 1 THEN <<s.numLanes - 1>> ELSE << >>
incrementNumColsReturn(s) ==
    IF s.numCols < MaxNumCols THEN <<s.numCols + 1>> ELSE << >>
decrementNumColsReturn(s) ==
    IF s.numCols > 1 THEN <<s.numCols - 1>> ELSE << >>

(**************************** helpers **************************************)
\* getRandomInt(min, max) = floor(Math.random() * (max - min) + min) with
\* Math.random() in [0, 1): the set of values it can return, for whole min
\* and max.  The product and the sum are rounded to the nearest double, so
\* with Math.random() close to 1 the sum can round up to max, which is then
\* returned.  For the largest double below 1, 1 - 2^-53, and min < max: the
\* product is d - e with d = max - min and e = 2^(log2(d) - 53) if d is a
\* power of two, e = 2^(log2(d) - 52) otherwise (log2 rounded down); the sum
\* max - e rounds to max iff e is at most half the gap between max and the
\* next double towards min, a gap of 2^(log2(max) - 53) below a power of two
\* max > 0, of 2^(log2(max) - 52) below any other max > 0 and of
\* 2^(log2(-max) - 52) below max < 0.  The sum is exact for max = 0, and for
\* min <= 0 < max (then d >= max).
getRandomInt(min, max) ==
    LET log2(n) == CHOOSE k \in 0 .. 29 : 2^k <= n /\ n < 2^(k + 1)
        isPowerOfTwo(n) == n = 2^log2(n)
        d == max - min
        lost == IF isPowerOfTwo(d) THEN log2(d) ELSE log2(d) + 1
        roundsUpToMax ==
            \/ max > 0 /\ lost <= (IF isPowerOfTwo(max) THEN log2(max) - 1 ELSE log2(max))
            \/ max < 0 /\ lost <= log2(-max)
    IN  IF max > min
        THEN (min .. (max - 1)) \cup (IF roundsUpToMax THEN {max} ELSE {})
        ELSE IF max = min THEN {min}
        ELSE max .. min

\* checkCollision with >= / <= for > / <: boxes that only touch do not collide.
checkCollisionStrict(e, p) ==
    LET eLeft   == e.x
        eRight  == e.x + colWidth
        eTop    == e.y + 65
        eBottom == e.y + rowHeight - 30
        pLeft   == p.x + 30
        pRight  == p.x + colWidth - 30
        pTop    == p.y + 45
        pBottom == p.y + rowHeight
    IN  ~(pLeft >= eRight \/ pRight <= eLeft \/ pTop >= eBottom \/ pBottom <= eTop)

\* The two rectangles checkCollision builds: the first argument's and the
\* second argument's edges.
checkCollisionBoxes(e, p) ==
    [eLeft   |-> e.x,
     eRight  |-> e.x + colWidth,
     eTop    |-> e.y + 65,
     eBottom |-> e.y + rowHeight - 30,
     pLeft   |-> p.x + 30,
     pRight  |-> p.x + colWidth - 30,
     pTop    |-> p.y + 45,
     pBottom |-> p.y + rowHeight]

\* checkCollision on the whole tiles, without the pixel insets.
checkCollisionWholeTile(e, p) ==
    LET eLeft   == e.x
        eRight  == e.x + colWidth
        eTop    == e.y
        eBottom == e.y + rowHeight
        pLeft   == p.x
        pRight  == p.x + colWidth
        pTop    == p.y
        pBottom == p.y + rowHeight
    IN  ~(pLeft > eRight \/ pRight < eLeft \/ pTop > eBottom \/ pBottom < eTop)

\* checkCollision for which boxes that touch collide on the left edge of the
\* obstacle box and not on its right edge.
checkCollisionOneSided(e, p) ==
    LET eLeft   == e.x
        eRight  == e.x + colWidth
        eTop    == e.y + 65
        eBottom == e.y + rowHeight - 30
        pLeft   == p.x + 30
        pRight  == p.x + colWidth - 30
        pTop    == p.y + 45
        pBottom == p.y + rowHeight
    IN  ~(pLeft >= eRight \/ pRight < eLeft \/ pTop > eBottom \/ pBottom < eTop)

\* checkCollision(e, p): rectangle test with the fixed pixel insets.
checkCollision(e, p) ==
    LET eLeft   == e.x
        eRight  == e.x + colWidth
        eTop    == e.y + 65
        eBottom == e.y + rowHeight - 30
        pLeft   == p.x + 30
        pRight  == p.x + colWidth - 30
        pTop    == p.y + 45
        pBottom == p.y + rowHeight
    IN  ~(pLeft > eRight \/ pRight < eLeft \/ pTop > eBottom \/ pBottom < eTop)

(****************************** Enemy **************************************)
\* setRandomValues that can roll the bare base speed (speed steps from 0).
setRandomValuesFromBaseSpeed(s) ==
    { [x     |-> k * (-colWidth),
       y     |-> r * rowHeight + dy,
       speed |-> s.baseEnemySpeed + 50 * d] :
          k \in getRandomInt(1, s.numCols),
          r \in getRandomInt(1, s.numLanes + 1),
          d \in getRandomInt(0, s.gameDifficulty + 1) }

\* Enemy.prototype.setRandomValues: every (x, y, speed) a roll can give.
setRandomValues(s) ==
    { [x     |-> k * (-colWidth),
       y     |-> r * rowHeight + dy,
       speed |-> s.baseEnemySpeed + 50 * d] :
          k \in getRandomInt(1, s.numCols),
          r \in getRandomInt(1, s.numLanes + 1),
          d \in getRandomInt(1, s.gameDifficulty + 1) }

\* update that re-rolls and then advances the obstacle in the same call.
EnemyUpdateRerollThenAdvance(e, s, dt) ==
    IF e.x < colWidth * s.numCols
    THEN { [e EXCEPT !.x = @ + (dt.num * e.speed) \div dt.den] }
    ELSE { [r EXCEPT !.x = @ + (dt.num * r.speed) \div dt.den] : r \in setRandomValues(s) }

\* update that compares x with the width of the scaled canvas.
EnemyUpdateScaledWidth(e, s, dt) ==
    IF RatGreater(RatTimes(getColWidth(s), s.numCols), Rat(e.x, 1))
    THEN { [e EXCEPT !.x = @ + (dt.num * e.speed) \div dt.den] }
    ELSE setRandomValues(s)

\* update that advances by the speed whatever the elapsed time.
EnemyUpdateFixedStep(e, s, dt) ==
    IF e.x < colWidth * s.numCols
    THEN { [e EXCEPT !.x = @ + e.speed] }
    ELSE setRandomValues(s)

\* Enemy.prototype.update(dt): the states the obstacle can be in afterwards.
\* dt is a fraction num / den of a second for which dt * speed is a whole
\* number.
EnemyUpdate(e, s, dt) ==
    IF e.x < colWidth * s.numCols
    THEN { [e EXCEPT !.x = @ + (dt.num * e.speed) \div dt.den] }
    ELSE setRandomValues(s)

\* update in doubles that advances by the speed whatever the elapsed time.
EnemyUpdateInDoublesFixedStep(e, s, dt) ==
    IF DoubleLess(e.x, DoubleOf(colWidth * s.numCols))
    THEN { [e EXCEPT !.x = DoublePlus(@, DoubleOf(e.speed))] }
    ELSE { [r EXCEPT !.x = DoubleOf(@)] : r \in setRandomValues(s) }

\* Enemy.prototype.update(dt) with x and dt as doubles, y and speed being
\* whole numbers: the states the obstacle can be in afterwards.
EnemyUpdateInDoubles(e, s, dt) ==
    IF DoubleLess(e.x, DoubleOf(colWidth * s.numCols))
    THEN { [e EXCEPT !.x = DoublePlus(@, DoubleTimes(dt, e.speed))] }
    ELSE { [r EXCEPT !.x = DoubleOf(@)] : r \in setRandomValues(s) }

(****************************** Entity *************************************)
scaledX(e, s) == RatTimes(getScalingFactor(s), e.x)

\* scaledY that returns the native position.
scaledYNative(e, s) == Rat(e.y, 1)

scaledY(e, s) == RatTimes(getScalingFactor(s), e.y)

(****************************** Player *************************************)
\* setInitialPosition that leaves out the vertical offset of the sprite.
setInitialPositionNoDY(s) ==
    [x |-> getPlayerStartCol(s) * colWidth,
     y |-> getPlayerStartRow(s) * rowHeight]

setInitialPosition(s) ==
    [x |-> getPlayerStartCol(s) * colWidth,
     y |-> getPlayerStartRow(s) * rowHeight + dy]

\* getCurrentCol() = x / colWidth and getCurrentRow() = (y - dy) / rowHeight are
\* real divisions; the code only compares them with integers, and with a
\* positive divisor  x / w < c  is  x < c * w.
ColLess(p, c) == p.x < c * colWidth
ColGreater(p, c) == p.x > c * colWidth
RowLess(p, r) == p.y - dy < r * rowHeight
RowGreater(p, r) == p.y - dy > r * rowHeight

\* The exact column / row of a tile-aligned position.
getCurrentCol(p) == p.x \div colWidth
getCurrentRow(p) == (p.y - dy) \div rowHeight

\* handleInput with the right-edge test off by one (<= for <).
handleInputOffByOne(p, s, direction) ==
    CASE direction = "left" ->
            IF ColGreater(p, 0) THEN [p EXCEPT !.x = @ - colWidth] ELSE p
      [] direction = "right" ->
            IF ~ColGreater(p, s.numCols - 1) THEN [p EXCEPT !.x = @ + colWidth] ELSE p
      [] direction = "up" ->
            IF RowGreater(p, 0) THEN [p EXCEPT !.y = @ - rowHeight] ELSE p
      [] direction = "down" ->
            IF RowLess(p, s.numLanes + 3 - 1) THEN [p EXCEPT !.y = @ + rowHeight] ELSE p
      [] OTHER -> p

\* handleInput without the test of the top edge.
handleInputUpUnclamped(p, s, direction) ==
    CASE direction = "left" ->
            IF ColGreater(p, 0) THEN [p EXCEPT !.x = @ - colWidth] ELSE p
      [] direction = "right" ->
            IF ColLess(p, s.numCols - 1) THEN [p EXCEPT !.x = @ + colWidth] ELSE p
      [] direction = "up" -> [p EXCEPT !.y = @ - rowHeight]
      [] direction = "down" ->
            IF RowLess(p, s.numLanes + 3 - 1) THEN [p EXCEPT !.y = @ + rowHeight] ELSE p
      [] OTHER -> p

\* handleInput whose switch ends in a default that moves down.
handleInputDefaultDown(p, s, direction) ==
    CASE direction = "left" ->
            IF ColGreater(p, 0) THEN [p EXCEPT !.x = @ - colWidth] ELSE p
      [] direction = "right" ->
            IF ColLess(p, s.numCols - 1) THEN [p EXCEPT !.x = @ + colWidth] ELSE p
      [] direction = "up" ->
            IF RowGreater(p, 0) THEN [p EXCEPT !.y = @ - rowHeight] ELSE p
      [] OTHER ->
            IF RowLess(p, s.numLanes + 3 - 1) THEN [p EXCEPT !.y = @ + rowHeight] ELSE p

\* Player.prototype.handleInput(direction)
handleInput(p, s, direction) ==
    CASE direction = "left" ->
            IF ColGreater(p, 0) THEN [p EXCEPT !.x = @ - colWidth] ELSE p
      [] direction = "right" ->
            IF ColLess(p, s.numCols - 1) THEN [p EXCEPT !.x = @ + colWidth] ELSE p
      [] direction = "up" ->
            IF RowGreater(p, 0) THEN [p EXCEPT !.y = @ - rowHeight] ELSE p
      [] direction = "down" ->
            IF RowLess(p, getNumRows(s) - 1) THEN [p EXCEPT !.y = @ + rowHeight] ELSE p
      [] OTHER -> p

\* The player together with the three scoreboard values.
Game == [player |-> player, streak |-> streak, wins |-> wins, deaths |-> deaths]

\* die that forgets to put the player back on the start position.
dieInPlace(g, s) == [g EXCEPT !.streak = 0, !.deaths = @ + 1]

\* die that forgets to reset the streak.
dieKeepStreak(g, s) ==
    [g EXCEPT !.deaths = @ + 1, !.player = setInitialPosition(s)]

\* Player.prototype.die
die(g, s) ==
    [g EXCEPT !.streak = 0, !.deaths = @ + 1, !.player = setInitialPosition(s)]

\* win that sets the streak to 1 instead of incrementing it.
winStreakOne(g, s) ==
    [g EXCEPT !.wins = @ + 1, !.streak = 1, !.player = setInitialPosition(s)]

\* win that forgets to count the win.
winStreakOnly(g, s) ==
    [g EXCEPT !.streak = @ + 1, !.player = setInitialPosition(s)]

\* win that forgets to put the player back on the start position.
winInPlace(g, s) == [g EXCEPT !.wins = @ + 1, !.streak = @ + 1]

\* Player.prototype.win
win(g, s) ==
    [g EXCEPT !.wins = @ + 1, !.streak = @ + 1, !.player = setInitialPosition(s)]

\* update whose test of the goal row is off by one (< 0 for < 1).
PlayerUpdateBelowRowZero(g, s) == IF RowLess(g.player, 0) THEN win(g, s) ELSE g

\* Player.prototype.update
PlayerUpdate(g, s) == IF RowLess(g.player, 1) THEN win(g, s) ELSE g

\* handleCollision whose test of the class name never matches.
handleCollisionNoMatch(g, s) == g

\* Player.prototype.handleCollision(entity): every element of allEnemies is an Enemy.
handleCollision(g, s) == die(g, s)

\* An iteration of checkCollisions that skips the test of the two boxes.
checkCollisionsStepUntested(g, s, e) == handleCollision(g, s)

\* One iteration of the forEach of checkCollisions.
checkCollisionsStep(g, s, e) ==
    IF checkCollision(e, g.player) THEN handleCollision(g, s) ELSE g

SetGame(g) ==
    /\ player' = g.player
    /\ streak' = g.streak
    /\ wins' = g.wins
    /\ deaths' = g.deaths

(************************ setOrResetGameObjects ****************************)
\* The test made on the enemy count, which is 0 in an initialised CONFIG too.
ResetSettingsIfNoEnemies(s) ==
    IF s.numEnemies = 0 THEN init(s, 4, 7, 10, 200, 4) ELSE s

\* The settings after the "initialise if not yet initialised" test
\* !CONFIG.getNumLanes(): the lane count is undefined or 0.
ResetSettings(s) ==
    IF "numLanes" \notin DOMAIN s \/ s.numLanes = 0
    THEN init(s, 4, 7, 10, 200, 4)
    ELSE s

\* setOrResetGameObjects that keeps the old "Total Wins" counter.
setOrResetGameObjectsKeepWins(s) ==
    LET s2 == ResetSettings(s) IN
    /\ settings' = s2
    /\ player' = setInitialPosition(s2)
    /\ allEnemies' \in [1 .. s2.numEnemies -> setRandomValues(s2)]
    /\ streak' = 0
    /\ wins' = wins
    /\ deaths' = 0

\* setOrResetGameObjects that resets the obstacles it has instead of dumping
\* and repopulating the array.
setOrResetGameObjectsKeepArray(s) ==
    LET s2 == ResetSettings(s) IN
    /\ settings' = s2
    /\ player' = setInitialPosition(s2)
    /\ allEnemies' \in [1 .. Len(allEnemies) -> setRandomValues(s2)]
    /\ streak' = 0
    /\ wins' = 0
    /\ deaths' = 0

\* setOrResetGameObjects: a player on the start position, getNumEnemies() fresh
\* obstacles, three TextEntity counters at 0.
setOrResetGameObjects(s) ==
    LET s2 == ResetSettings(s) IN
    /\ settings' = s2
    /\ player' = setInitialPosition(s2)
    /\ allEnemies' \in [1 .. s2.numEnemies -> setRandomValues(s2)]
    /\ streak' = 0
    /\ wins' = 0
    /\ deaths' = 0

(***************************** the game ************************************)
\* The configurations explored: games of two obstacles are explored with one
\* lane, one column and difficulty 1, where an obstacle has the fewest
\* possible rolls.
WithinGame(s) ==
    /\ s.numLanes \in GameLaneCounts
    /\ s.numCols \in GameColCounts
    /\ s.numEnemies \in GameEnemyCounts
    /\ s.gameDifficulty \in GameDifficulties
    /\ s.numEnemies > 1 => (s.numLanes = 1 /\ s.numCols = 1 /\ s.gameDifficulty = 1)

GameConfigs ==
    { s \in { init(NewSettings, l, c, n, 200, d) :
                 l \in GameLaneCounts, c \in GameColCounts,
                 n \in GameEnemyCounts, d \in GameDifficulties } : WithinGame(s) }

Keys == {"left", "up", "right", "down", "undefined", "space"}

\* The state setOrResetGameObjects() leaves at load time, CONFIG being
\* initialised with s.
Loaded(s) ==
    /\ settings = s
    /\ player = setInitialPosition(s)
    /\ allEnemies \in [1 .. s.numEnemies -> setRandomValues(s)]
    /\ streak = 0
    /\ wins = 0
    /\ deaths = 0
    /\ pendingReset = FALSE
    /\ pc = "idle"
    /\ idx = 0
    /\ result = [call |-> "none"]
    /\ upCount = 0
    /\ clicks = 0
    /\ goal = FALSE
    /\ successes = 0
    /\ tickStart = NoTick

Init == \E s \in GameConfigs : Loaded(s)

\* The key input that moved the player from p to p2 put it in row 0.
ReachesGoal(p, p2) == ~RowLess(p, 1) /\ RowLess(p2, 1)

\* keyup listener: player.handleInput(allowedKeys[e.keyCode])
KeyUp ==
    /\ pc = "idle"
    /\ \E key \in Keys : player' = handleInput(player, settings, key)
    /\ goal' = (goal \/ ReachesGoal(player, player'))
    /\ UNCHANGED <<settings, allEnemies, streak, wins, deaths, pendingReset,
                   pc, idx, result, upCount, clicks, successes, tickStart>>

\* A button callback that rebuilds the game objects itself instead of asking
\* for the reset.
ButtonResetsAtOnce(s2) ==
    /\ pc = "idle"
    /\ WithinGame(s2)
    /\ clicks < MaxClicks
    /\ setOrResetGameObjects(s2)
    /\ UNCHANGED <<pendingReset, clicks, pc, idx, result, upCount, goal, successes, tickStart>>

\* Button callback cb: CONFIG[e](); pendingReset = true
Button(s2) ==
    /\ pc = "idle"
    /\ WithinGame(s2)
    /\ clicks < MaxClicks
    /\ settings' = s2
    /\ pendingReset' = TRUE
    /\ clicks' = clicks + 1
    /\ UNCHANGED <<player, allEnemies, streak, wins, deaths, pc, idx, result,
                   upCount, goal, successes, tickStart>>

ClickIncrementNumEnemies == Button(incrementNumEnemies(settings))
ClickDecrementNumEnemies == Button(decrementNumEnemies(settings))
ClickIncrementGameDifficulty == Button(incrementGameDifficulty(settings))
ClickDecrementGameDifficulty == Button(decrementGameDifficulty(settings))
ClickIncrementNumLanes == Button(incrementNumLanes(settings))
ClickDecrementNumLanes == Button(decrementNumLanes(settings))
ClickIncrementNumCols == Button(incrementNumCols(settings))
ClickDecrementNumCols == Button(decrementNumCols(settings))

\* The engine consumes pendingReset before it runs the next frame.
EngineReset ==
    /\ pc = "idle"
    /\ pendingReset
    /\ setOrResetGameObjects(settings)
    /\ pendingReset' = FALSE
    /\ clicks' = 0
    /\ goal' = FALSE
    /\ successes' = 0
    /\ tickStart' = NoTick
    /\ UNCHANGED <<pc, idx, result, upCount>>

\* A frame that tests the collisions before it updates the player.
AfterPassCollideFirst(p, n) ==
    CASE p = "idle" -> IF n = 0 THEN "player" ELSE "collide"
      [] p = "collide" -> "player"
      [] OTHER -> "idle"

\* The pass that follows pass p of a frame over n obstacles ("idle": the frame
\* is over).  A collision pass over no obstacle does nothing.
AfterPass(p, n) ==
    CASE p = "idle" -> "player"
      [] p = "player" -> IF n = 0 THEN "idle" ELSE "collide"
      [] OTHER -> "idle"

\* Enter pass p.
Enter(p) ==
    /\ pc' = p
    /\ idx' = IF p = "collide" THEN 1 ELSE 0

\* Frame, first pass: allEnemies.forEach(enemy.update(dt)).
TickUpdateEnemies ==
    /\ pc = "idle"
    /\ ~pendingReset
    /\ wins + deaths < MaxCount
    /\ \E dt \in DtChoices :
         \E next \in [1 .. Len(allEnemies) ->
                        UNION { EnemyUpdate(allEnemies[i], settings, dt) :
                                   i \in 1 .. Len(allEnemies) }] :
            /\ \A i \in 1 .. Len(allEnemies) :
                  next[i] \in EnemyUpdate(allEnemies[i], settings, dt)
            /\ allEnemies' = next
            /\ tickStart' = [wins |-> wins, deaths |-> deaths, dt |-> dt, hits |-> 0]
    /\ Enter(AfterPass("idle", Len(allEnemies)))
    /\ UNCHANGED <<settings, player, streak, wins, deaths, pendingReset,
                   result, upCount, clicks, goal, successes>>

\* Frame, second pass: player.update().
TickUpdatePlayer ==
    /\ pc = "player"
    /\ SetGame(PlayerUpdate(Game, settings))
    /\ Enter(AfterPass("player", Len(allEnemies)))
    /\ goal' = FALSE
    /\ successes' = IF RowLess(player, 1) THEN successes + 1 ELSE successes
    /\ tickStart' = [tickStart EXCEPT !.hits =
                        Cardinality({ i \in 1 .. Len(allEnemies) :
                                        checkCollision(allEnemies[i], player') })]
    /\ UNCHANGED <<settings, allEnemies, pendingReset, result, upCount, clicks>>

\* Frame, third pass: one iteration of checkCollisions(allEnemies, player).
TickCheckCollision ==
    /\ pc = "collide"
    /\ SetGame(checkCollisionsStep(Game, settings, allEnemies[idx]))
    /\ IF idx < Len(allEnemies)
       THEN pc' = "collide" /\ idx' = idx + 1
       ELSE Enter(AfterPass("collide", Len(allEnemies)))
    /\ successes' = IF checkCollision(allEnemies[idx], player) THEN 0 ELSE successes
    /\ UNCHANGED <<settings, allEnemies, pendingReset, result, upCount, clicks, goal,
                   tickStart>>

Next ==
    \/ KeyUp
    \/ ClickIncrementNumEnemies
    \/ ClickDecrementNumEnemies
    \/ ClickIncrementGameDifficulty
    \/ ClickDecrementGameDifficulty
    \/ ClickIncrementNumLanes
    \/ ClickDecrementNumLanes
    \/ ClickIncrementNumCols
    \/ ClickDecrementNumCols
    \/ EngineReset
    \/ TickUpdateEnemies
    \/ TickUpdatePlayer
    \/ TickCheckCollision

Spec == Init /\ [][Next]_vars

(*********************** the game in a resized window **********************)
\* The largest width and height of the given aspect ratio (a fraction) that
\* fit in maxWidth x maxHeight, maxHeight > 0.
calculateMaxDimensions(maxWidth, maxHeight, aspectRatio) ==
    LET containerAspectRatio == Rat(maxWidth, maxHeight)
    IN  IF RatGreater(aspectRatio, containerAspectRatio)
        THEN [width  |-> Rat(maxWidth, 1),
              height |-> Rat(maxWidth * aspectRatio.den, aspectRatio.num)]
        ELSE [width  |-> Rat(maxHeight * aspectRatio.num, aspectRatio.den),
              height |-> Rat(maxHeight, 1)]

\* scaleCanvas in a viewport of the given width and height: the settings
\* afterwards.  The scale is 1 when the canvas fits at its native size and
\* the fraction of the native width that fits otherwise.  (The canvas
\* element's width and height, set from the scaled getters, are not state of
\* the game.)
scaleCanvas(s, viewportWidth, viewportHeight) ==
    LET nativeWidth == getNativeCanvasWidth(s)
        nativeHeight == getNativeCanvasHeight(s)
        gameAspectRatio == Rat(nativeWidth, nativeHeight)
        scaled == calculateMaxDimensions(viewportWidth, viewportHeight,
                                         gameAspectRatio)
        scalingFactor == IF RatGreater(scaled.width, Rat(nativeWidth, 1))
                         THEN Rat(1, 1)
                         ELSE Rat(scaled.width.num, scaled.width.den * nativeWidth)
    IN  setScalingFactor(s, scalingFactor)

\* window.onresize = scaleCanvas
Resize ==
    /\ pc = "idle"
    /\ \E v \in Viewports : settings' = scaleCanvas(settings, v[1], v[2])
    /\ UNCHANGED <<player, allEnemies, streak, wins, deaths, pendingReset,
                   pc, idx, result, upCount, clicks, goal, successes, tickStart>>

\* A game of difficulty 1 with one obstacle at most.
InitResized ==
    \E s \in GameConfigs : s.numEnemies <= 1 /\ s.gameDifficulty = 1 /\ Loaded(s)

\* Key inputs, clicks on the buttons that take an obstacle away or change
\* the grid, resets, frames and resizes of the window.
NextResized ==
    \/ KeyUp
    \/ ClickDecrementNumEnemies
    \/ ClickIncrementNumLanes
    \/ ClickDecrementNumLanes
    \/ ClickIncrementNumCols
    \/ ClickDecrementNumCols
    \/ EngineReset
    \/ TickUpdateEnemies
    \/ TickUpdatePlayer
    \/ TickCheckCollision
    \/ Resize

SpecResized == InitResized /\ [][NextResized]_vars

(********************** the reset, recorded ********************************)
\* The reset the engine makes, the settings and the game objects it found
\* being recorded in result.
EngineResetRecorded ==
    /\ pc = "idle"
    /\ pendingReset
    /\ setOrResetGameObjects(settings)
    /\ result' = [call    |-> "setOrResetGameObjects",
                  onStart |-> (player = setInitialPosition(settings)),
                  held    |-> Len(allEnemies),
                  scored  |-> wins > 0,
                  failed  |-> deaths > 0]
    /\ pendingReset' = FALSE
    /\ clicks' = 0
    /\ goal' = FALSE
    /\ successes' = 0
    /\ tickStart' = NoTick
    /\ UNCHANGED <<pc, idx, upCount>>

\* A game with one lane, one column and difficulty 1.
InitReset ==
    \E s \in GameConfigs :
        s.numLanes = 1 /\ s.numCols = 1 /\ s.gameDifficulty = 1 /\ Loaded(s)

\* Key inputs, clicks on the enemy buttons, the resets they ask for and
\* frames.
NextReset ==
    \/ KeyUp
    \/ ClickIncrementNumEnemies
    \/ ClickDecrementNumEnemies
    \/ EngineResetRecorded
    \/ TickUpdateEnemies
    \/ TickUpdatePlayer
    \/ TickCheckCollision

SpecReset == InitReset /\ [][NextReset]_vars

(****************** one game in a window that is resized *******************)
InitOneGame == Loaded(init(NewSettings, 1, 2, 1, 200, 1))

\* Key inputs, frames and resizes of the window; the settings keep their
\* values but for the scale.
NextOneGame ==
    \/ KeyUp
    \/ Resize
    \/ TickUpdateEnemies
    \/ TickUpdatePlayer
    \/ TickCheckCollision

SpecOneGame == InitOneGame /\ [][NextOneGame]_vars

(************************* key inputs, recorded ****************************)
\* The keyup listener, the call of handleInput being recorded in result:
\* its argument, the player before and after it, the settings it ran under.
KeyUpRecorded ==
    /\ pc = "idle"
    /\ \E key \in Keys :
          /\ player' = handleInput(player, settings, key)
          /\ result' = [call |-> "handleInput", direction |-> key, before |-> player, after |-> player',
                        settings |-> settings]
    /\ goal' = (goal \/ ReachesGoal(player, player'))
    /\ UNCHANGED <<settings, allEnemies, streak, wins, deaths, pendingReset,
                   pc, idx, upCount, clicks, successes, tickStart>>

\* A game without obstacles.
InitInput ==
    \E s \in GameConfigs : s.numEnemies = 0 /\ s.gameDifficulty = 1 /\ Loaded(s)

\* Key inputs, clicks on the grid size buttons and the resets they ask for; no
\* frame runs.
NextInput ==
    \/ KeyUpRecorded
    \/ ClickIncrementNumLanes
    \/ ClickDecrementNumLanes
    \/ ClickIncrementNumCols
    \/ ClickDecrementNumCols
    \/ EngineReset

SpecInput == InitInput /\ [][NextInput]_vars

(******************* key inputs, recorded, between frames ******************)
\* Two lanes, two columns, one obstacle.
InitKeys == Loaded(init(NewSettings, 2, 2, 1, 200, 1))

NextKeys ==
    \/ KeyUpRecorded
    \/ TickUpdateEnemies
    \/ TickUpdatePlayer
    \/ TickCheckCollision

SpecKeys == InitKeys /\ [][NextKeys]_vars

(********************* checkCollision, called directly *********************)
\* checkCollision is a function of the x and y of its two arguments: an
\* obstacle within SpanX / SpanY pixels of a player standing on a tile, so
\* that the boxes meet, touch and miss each other on both axes.
InitCollision ==
    /\ settings = init(NewSettings, 4, 7, 1, 200, 4)
    /\ player \in [x : {0, 101}, y : {57, 140}]
    /\ \E ex \in (player.x - SpanX) .. (player.x + SpanX),
          ey \in (player.y - SpanY) .. (player.y + SpanY) :
            allEnemies = <<[x |-> ex, y |-> ey, speed |-> 250]>>
    /\ streak = 0
    /\ wins = 0
    /\ deaths = 0
    /\ pendingReset = FALSE
    /\ pc = "idle"
    /\ idx = 0
    /\ result = [call |-> "none"]
    /\ upCount = 0
    /\ clicks = 0
    /\ goal = FALSE
    /\ successes = 0
    /\ tickStart = NoTick

CallCheckCollision ==
    /\ result' = [call |-> "checkCollision", e |-> allEnemies[1], p |-> player,
                  ret |-> checkCollision(allEnemies[1], player)]
    /\ UNCHANGED <<settings, player, allEnemies, streak, wins, deaths,
                   pendingReset, pc, idx, upCount, clicks, goal, successes, tickStart>>

NextCollision == CallCheckCollision

SpecCollision == InitCollision /\ [][NextCollision]_vars

(*************** checkCollision on tile-aligned entities *******************)
\* A player on a tile of the grid and an obstacle in any row of the grid,
\* within SpanX pixels of the player.
InitAligned ==
    /\ settings \in { init(NewSettings, l, c, 1, 200, 1) : l \in 1 .. 3, c \in 1 .. 2 }
    /\ \E col \in 0 .. settings.numCols - 1, row \in 0 .. getNumRows(settings) - 1 :
          player = [x |-> col * colWidth, y |-> row * rowHeight + dy]
    /\ \E ex \in (player.x - SpanX) .. (player.x + SpanX),
          lane \in 0 .. getNumRows(settings) - 1 :
            allEnemies = <<[x |-> ex, y |-> lane * rowHeight + dy, speed |-> 250]>>
    /\ streak = 0
    /\ wins = 0
    /\ deaths = 0
    /\ pendingReset = FALSE
    /\ pc = "idle"
    /\ idx = 0
    /\ result = [call |-> "none"]
    /\ upCount = 0
    /\ clicks = 0
    /\ goal = FALSE
    /\ successes = 0
    /\ tickStart = NoTick

NextAligned == CallCheckCollision

SpecAligned == InitAligned /\ [][NextAligned]_vars

(****************** the rectangles of checkCollision ***********************)
\* checkCollision(allEnemies[0], player), the edges of its two rectangles
\* being recorded with what it returns.
CallCheckCollisionBoxes ==
    /\ result' = [call  |-> "checkCollisionBoxes",
                  e     |-> allEnemies[1],
                  p     |-> player,
                  boxes |-> checkCollisionBoxes(allEnemies[1], player),
                  ret   |-> checkCollision(allEnemies[1], player)]
    /\ UNCHANGED <<settings, player, allEnemies, streak, wins, deaths,
                   pendingReset, pc, idx, upCount, clicks, goal, successes, tickStart>>

NextBoxes == CallCheckCollisionBoxes

SpecBoxes == InitAligned /\ [][NextBoxes]_vars

(************************ the 4 x 7 scenario *******************************)
\* laneCount = 4, colCount = 7, no obstacle.
InitScenario == Loaded(init(NewSettings, 4, 7, 0, 200, 4))

\* An 'up' input of the run; the run ends with the success.
ScenarioUp ==
    /\ pc = "idle"
    /\ wins = 0
    /\ upCount < MaxUps
    /\ player' = handleInput(player, settings, "up")
    /\ upCount' = upCount + 1
    /\ goal' = (goal \/ ReachesGoal(player, player'))
    /\ UNCHANGED <<settings, allEnemies, streak, wins, deaths, pendingReset,
                   pc, idx, result, clicks, successes, tickStart>>

\* A 'left' or 'right' input.
ScenarioSide ==
    /\ pc = "idle"
    /\ \E key \in {"left", "right"} : player' = handleInput(player, settings, key)
    /\ goal' = (goal \/ ReachesGoal(player, player'))
    /\ UNCHANGED <<settings, allEnemies, streak, wins, deaths, pendingReset,
                   pc, idx, result, upCount, clicks, successes, tickStart>>

NextScenario ==
    \/ ScenarioUp
    \/ ScenarioSide
    \/ TickUpdateEnemies
    \/ TickUpdatePlayer

SpecScenario == InitScenario /\ [][NextScenario]_vars

(********************** the CONFIG module alone ****************************)
\* CONFIG.init(4, 7, 10, 200, 4) was called and the player built; the obstacle
\* array is not built yet.
InitConfig ==
    /\ settings = init(NewSettings, 4, 7, 10, 200, 4)
    /\ player = setInitialPosition(settings)
    /\ allEnemies = << >>
    /\ streak = 0
    /\ wins = 0
    /\ deaths = 0
    /\ pendingReset = FALSE
    /\ pc = "idle"
    /\ idx = 0
    /\ result = [call |-> "none"]
    /\ upCount = 0
    /\ clicks = 0
    /\ goal = FALSE
    /\ successes = 0
    /\ tickStart = NoTick

\* A direct call of a setter of CONFIG.
Setter(s2) ==
    /\ settings' = s2
    /\ result' = [call |-> "setter"]
    /\ UNCHANGED <<player, allEnemies, streak, wins, deaths, pendingReset,
                   pc, idx, upCount, clicks, goal, successes, tickStart>>

CallIncrementGameDifficulty == Setter(incrementGameDifficulty(settings))
CallDecrementGameDifficulty == Setter(decrementGameDifficulty(settings))
CallIncrementNumEnemies == Setter(incrementNumEnemies(settings))
CallDecrementNumEnemies == Setter(decrementNumEnemies(settings))
CallIncrementNumLanes == Setter(incrementNumLanes(settings))
CallDecrementNumLanes == Setter(decrementNumLanes(settings))
CallIncrementNumCols == Setter(incrementNumCols(settings))
CallDecrementNumCols == Setter(decrementNumCols(settings))

NextConfig ==
    \/ CallIncrementGameDifficulty
    \/ CallDecrementGameDifficulty
    \/ CallIncrementNumEnemies
    \/ CallDecrementNumEnemies
    \/ CallIncrementNumLanes
    \/ CallDecrementNumLanes
    \/ CallIncrementNumCols
    \/ CallDecrementNumCols

SpecConfig == InitConfig /\ [][NextConfig]_vars

(******************** grid setters, scale and getters **********************)
CallSetScalingFactor == \E scale \in Scales : Setter(setScalingFactor(settings, scale))

\* A read of every getter of CONFIG that derives its value from the settings.
ReadGetters ==
    /\ result' = [call |-> "getters",
                  numRows |-> getNumRows(settings),
                  nativeCanvasWidth |-> getNativeCanvasWidth(settings),
                  nativeCanvasHeight |-> getNativeCanvasHeight(settings),
                  nativeColWidth |-> getNativeColWidth(settings),
                  nativeRowHeight |-> getNativeRowHeight(settings),
                  nativeDY |-> getNativeDY(settings),
                  scalingFactor |-> getScalingFactor(settings),
                  colWidth |-> getColWidth(settings),
                  rowHeight |-> getRowHeight(settings),
                  tileHeight |-> getTileHeight(settings),
                  dy |-> getDY(settings),
                  canvasWidth |-> getCanvasWidth(settings),
                  canvasHeight |-> getCanvasHeight(settings)]
    /\ UNCHANGED <<settings, player, allEnemies, streak, wins, deaths,
                   pendingReset, pc, idx, upCount, clicks, goal, successes, tickStart>>

\* Any sequence of calls of the grid setters and of setScalingFactor, the
\* getters being read between them.
NextGetters ==
    \/ CallIncrementNumLanes
    \/ CallDecrementNumLanes
    \/ CallIncrementNumCols
    \/ CallDecrementNumCols
    \/ CallSetScalingFactor
    \/ ReadGetters

SpecGetters == InitConfig /\ [][NextGetters]_vars

(******************** grid setters and start position **********************)
\* player.setInitialPosition(), the two getters it reads being recorded.
CallSetInitialPosition ==
    /\ player' = setInitialPosition(settings)
    /\ result' = [call |-> "setInitialPosition",
                  startCol |-> getPlayerStartCol(settings),
                  startRow |-> getPlayerStartRow(settings)]
    /\ UNCHANGED <<settings, allEnemies, streak, wins, deaths, pendingReset,
                   pc, idx, upCount, clicks, goal, successes, tickStart>>

NextStart ==
    \/ CallIncrementNumLanes
    \/ CallDecrementNumLanes
    \/ CallIncrementNumCols
    \/ CallDecrementNumCols
    \/ CallSetInitialPosition

SpecStart == InitConfig /\ [][NextStart]_vars

(********************** grid setters and re-rolls **************************)
\* One obstacle, built by new Enemy() under init(4, 7, 1, 200, 1).
InitReroll ==
    /\ settings = init(NewSettings, 4, 7, 1, 200, 1)
    /\ player = setInitialPosition(settings)
    /\ allEnemies \in [1 .. 1 -> setRandomValues(settings)]
    /\ streak = 0
    /\ wins = 0
    /\ deaths = 0
    /\ pendingReset = FALSE
    /\ pc = "idle"
    /\ idx = 0
    /\ result = [call |-> "none"]
    /\ upCount = 0
    /\ clicks = 0
    /\ goal = FALSE
    /\ successes = 0
    /\ tickStart = NoTick

\* allEnemies[0].setRandomValues()
CallSetRandomValues ==
    /\ allEnemies' \in [1 .. 1 -> setRandomValues(settings)]
    /\ result' = [call |-> "setRandomValues"]
    /\ UNCHANGED <<settings, player, streak, wins, deaths, pendingReset,
                   pc, idx, upCount, clicks, goal, successes, tickStart>>

NextReroll ==
    \/ CallIncrementNumLanes
    \/ CallDecrementNumLanes
    \/ CallIncrementNumCols
    \/ CallDecrementNumCols
    \/ CallSetRandomValues

SpecReroll == InitReroll /\ [][NextReroll]_vars

(******************** difficulty setters and re-rolls **********************)
\* One obstacle, built by new Enemy() under init(1, 2, 1, 200, 4): one lane
\* and one x to roll, four speeds.
InitSpeed ==
    /\ settings = init(NewSettings, 1, 2, 1, 200, 4)
    /\ player = setInitialPosition(settings)
    /\ allEnemies \in [1 .. 1 -> setRandomValues(settings)]
    /\ streak = 0
    /\ wins = 0
    /\ deaths = 0
    /\ pendingReset = FALSE
    /\ pc = "idle"
    /\ idx = 0
    /\ result = [call |-> "none"]
    /\ upCount = 0
    /\ clicks = 0
    /\ goal = FALSE
    /\ successes = 0
    /\ tickStart = NoTick

NextSpeed ==
    \/ CallIncrementGameDifficulty
    \/ CallDecrementGameDifficulty
    \/ CallSetRandomValues

SpecSpeed == InitSpeed /\ [][NextSpeed]_vars

(***************** one span of time, whole and split ***********************)
\* Milliseconds between two frames: the 16 and 17 ms of a display of 60
\* frames a second, tenths of a second and a whole second.
SplitMillis == {16, 17, 100, 200, 1000}
\* Elapsed times of one update.
SplitDts == { Seconds(ms) : ms \in SplitMillis }
\* Elapsed times of the updates that move the obstacle between two
\* comparisons.
MotionDts == { Seconds(ms) : ms \in {100, 500} }

MotionConfigs ==
    { init(NewSettings, 1, c, 1, 200, d) : c \in 1 .. 2, d \in 1 .. 2 }

\* One obstacle as a roll leaves it, x being a double.
InitMotion ==
    /\ settings \in MotionConfigs
    /\ player = setInitialPosition(settings)
    /\ allEnemies \in [1 .. 1 -> { [e EXCEPT !.x = DoubleOf(@)] :
                                     e \in setRandomValues(settings) }]
    /\ streak = 0
    /\ wins = 0
    /\ deaths = 0
    /\ pendingReset = FALSE
    /\ pc = "idle"
    /\ idx = 0
    /\ result = [call |-> "none"]
    /\ upCount = 0
    /\ clicks = 0
    /\ goal = FALSE
    /\ successes = 0
    /\ tickStart = NoTick

\* allEnemies[0].update(dt), in doubles.
CallUpdateInDoubles ==
    /\ \E dt \in MotionDts :
          allEnemies' \in [1 .. 1 -> EnemyUpdateInDoubles(allEnemies[1], settings, dt)]
    /\ result' = [call |-> "update"]
    /\ UNCHANGED <<settings, player, streak, wins, deaths, pendingReset,
                   pc, idx, upCount, clicks, goal, successes, tickStart>>

\* The obstacle as it is, updated on two copies: update(dt1); update(dt2) on
\* one and update(dt1 + dt2) on the other.  The states each can end in are
\* recorded.  The obstacle itself is left as it is, so one comparison is made
\* on every state the updates reach.
CallUpdateSplit ==
    /\ result.call # "updateSplit"
    /\ \E dt1 \in SplitDts, dt2 \in SplitDts :
          result' = [call  |-> "updateSplit",
                     e     |-> allEnemies[1],
                     dt1   |-> dt1,
                     dt2   |-> dt2,
                     first |-> EnemyUpdateInDoubles(allEnemies[1], settings, dt1),
                     twice |-> UNION { EnemyUpdateInDoubles(e1, settings, dt2) :
                                 e1 \in EnemyUpdateInDoubles(allEnemies[1], settings, dt1) },
                     once  |-> EnemyUpdateInDoubles(allEnemies[1], settings,
                                                    DoublePlus(dt1, dt2))]
    /\ UNCHANGED <<settings, player, allEnemies, streak, wins, deaths,
                   pendingReset, pc, idx, upCount, clicks, goal, successes, tickStart>>

NextMotion ==
    \/ CallUpdateInDoubles
    \/ CallUpdateSplit

SpecMotion == InitMotion /\ [][NextMotion]_vars

(******************** one obstacle, updated by direct calls ****************)
\* allEnemies[0].update(dt)
CallUpdate ==
    /\ \E dt \in DtChoices :
          allEnemies' \in [1 .. 1 -> EnemyUpdate(allEnemies[1], settings, dt)]
    /\ result' = [call |-> "update"]
    /\ UNCHANGED <<settings, player, streak, wins, deaths, pendingReset,
                   pc, idx, upCount, clicks, goal, successes, tickStart>>

(********************* frames that never stop ******************************)
\* Two obstacles in a field of one lane, with base speed 0 or 200; the field
\* of two columns is explored with difficulty 1.
InitFrames ==
    /\ settings \in { s \in { init(NewSettings, 1, c, 2, b, d) :
                             c \in 1 .. 2, b \in {0, 200}, d \in 1 .. 2 } :
                       s.numCols > 1 => s.gameDifficulty = 1 }
    /\ player = setInitialPosition(settings)
    /\ allEnemies \in [1 .. 2 -> setRandomValues(settings)]
    /\ streak = 0
    /\ wins = 0
    /\ deaths = 0
    /\ pendingReset = FALSE
    /\ pc = "idle"
    /\ idx = 0
    /\ result = [call |-> "none"]
    /\ upCount = 0
    /\ clicks = 0
    /\ goal = FALSE
    /\ successes = 0
    /\ tickStart = NoTick

\* The obstacle pass of a frame: allEnemies.forEach(enemy.update(dt)), with
\* dt > 0.  The obstacles the pass re-rolled are recorded.
FrameUpdateEnemies ==
    /\ \E dt \in DtChoices :
          allEnemies' \in [1 .. 2 -> UNION { EnemyUpdate(allEnemies[i], settings, dt) :
                                               i \in 1 .. 2 }]
          /\ \A i \in 1 .. 2 : allEnemies'[i] \in EnemyUpdate(allEnemies[i], settings, dt)
    /\ result' = [call |-> "update",
                  rerolled |-> { i \in 1 .. 2 :
                                   allEnemies[i].x >= colWidth * settings.numCols }]
    /\ UNCHANGED <<settings, player, streak, wins, deaths, pendingReset,
                   pc, idx, upCount, clicks, goal, successes, tickStart>>

NextFrames == FrameUpdateEnemies

\* The engine asks for the next frame at the end of every frame.
SpecFrames == InitFrames /\ [][NextFrames]_vars /\ WF_vars(FrameUpdateEnemies)

(******************** scale changed and set back ***************************)
\* scaledX() and scaledY() of the player and of every obstacle.
ScaledPositions(p, es, s) ==
    [player  |-> <<scaledX(p, s), scaledY(p, s)>>,
     enemies |-> [i \in DOMAIN es |->
                     <<scaledX(es[i], s), scaledY(es[i], s)>>]]

InitScaled == Loaded(init(NewSettings, 1, 2, 1, 200, 1))

\* setScalingFactor(other); setScalingFactor(the scale before).  The scaled
\* positions are read before, between and after the two calls, and the native
\* positions before and after them.
CallScaleRoundTrip ==
    /\ pc = "idle"
    /\ \E other \in Scales :
          LET s1 == setScalingFactor(settings, other)
              s2 == setScalingFactor(s1, getScalingFactor(settings))
          IN  /\ settings' = s2
              /\ result' = [call    |-> "scaleRoundTrip",
                            scale   |-> getScalingFactor(settings),
                            other   |-> getScalingFactor(s1),
                            back    |-> getScalingFactor(s2),
                            player  |-> player,
                            enemies |-> allEnemies,
                            before  |-> ScaledPositions(player, allEnemies, settings),
                            between |-> ScaledPositions(player, allEnemies, s1),
                            after   |-> ScaledPositions(player, allEnemies, s2)]
    /\ UNCHANGED <<player, allEnemies, streak, wins, deaths, pendingReset,
                   pc, idx, upCount, clicks, goal, successes, tickStart>>

\* Key inputs, obstacle updates and resizes of the window, and the change of
\* the scale and back.
NextScaled ==
    \/ KeyUp
    \/ CallUpdate
    \/ Resize
    \/ CallScaleRoundTrip

SpecScaled == InitScaled /\ [][NextScaled]_vars

(******************* the simpler CONFIG, its setters ***********************)
\* CONFIG.init of the simpler CONFIG: the five tunables, no scale.
Simple_init(numLanes, numCols, numEnemies, baseEnemySpeed, gameDifficulty) ==
    [numLanes |-> numLanes, numCols |-> numCols, numEnemies |-> numEnemies,
     baseEnemySpeed |-> baseEnemySpeed, gameDifficulty |-> gameDifficulty]

Simple_incrementGameDifficulty(s) ==
    IF s.gameDifficulty < 9 THEN [s EXCEPT !.gameDifficulty = @ + 1] ELSE s
Simple_decrementGameDifficulty(s) ==
    IF s.gameDifficulty > 2 THEN [s EXCEPT !.gameDifficulty = @ - 1] ELSE s
Simple_incrementNumEnemies(s) ==
    IF s.numEnemies < 20 THEN [s EXCEPT !.numEnemies = @ + 1] ELSE s

\* decrementNumEnemies with the lower limit of the full CONFIG.
Simple_decrementNumEnemiesToZero(s) ==
    IF s.numEnemies > 0 THEN [s EXCEPT !.numEnemies = @ - 1] ELSE s

Simple_decrementNumEnemies(s) ==
    IF s.numEnemies > 2 THEN [s EXCEPT !.numEnemies = @ - 1] ELSE s
Simple_incrementNumLanes(s) ==
    IF s.numLanes < 5 THEN [s EXCEPT !.numLanes = @ + 1] ELSE s
Simple_decrementNumLanes(s) ==
    IF s.numLanes > 1 THEN [s EXCEPT !.numLanes = @ - 1] ELSE s
Simple_incrementNumCols(s) ==
    IF s.numCols < 11 THEN [s EXCEPT !.numCols = @ + 1] ELSE s
Simple_decrementNumCols(s) ==
    IF s.numCols > 2 THEN [s EXCEPT !.numCols = @ - 1] ELSE s

\* CONFIG.init with every tunable at one of its limits.
SimpleInits ==
    { Simple_init(l, c, n, 200, d) :
         l \in {1, 5}, c \in {2, 11}, n \in {2, 20}, d \in {2, 9} }

InitSimple ==
    /\ settings \in SimpleInits
    /\ player = [x |-> (settings.numCols \div 2) * colWidth,
                 y |-> (settings.numLanes + 2) * rowHeight + dy]
    /\ allEnemies = << >>
    /\ streak = 0
    /\ wins = 0
    /\ deaths = 0
    /\ pendingReset = FALSE
    /\ pc = "idle"
    /\ idx = 0
    /\ result = [call |-> "none"]
    /\ upCount = 0
    /\ clicks = 0
    /\ goal = FALSE
    /\ successes = 0
    /\ tickStart = NoTick

\* A call of a setter: its name and the settings before it are recorded.
SimpleSetter(name, s2) ==
    /\ settings' = s2
    /\ result' = [call |-> name, before |-> settings]
    /\ UNCHANGED <<player, allEnemies, streak, wins, deaths, pendingReset,
                   pc, idx, upCount, clicks, goal, successes, tickStart>>

SimpleIncrementGameDifficulty ==
    SimpleSetter("incrementGameDifficulty", Simple_incrementGameDifficulty(settings))
SimpleDecrementGameDifficulty ==
    SimpleSetter("decrementGameDifficulty", Simple_decrementGameDifficulty(settings))
SimpleIncrementNumEnemies ==
    SimpleSetter("incrementNumEnemies", Simple_incrementNumEnemies(settings))
SimpleDecrementNumEnemies ==
    SimpleSetter("decrementNumEnemies", Simple_decrementNumEnemies(settings))
SimpleIncrementNumLanes ==
    SimpleSetter("incrementNumLanes", Simple_incrementNumLanes(settings))
SimpleDecrementNumLanes ==
    SimpleSetter("decrementNumLanes", Simple_decrementNumLanes(settings))
SimpleIncrementNumCols ==
    SimpleSetter("incrementNumCols", Simple_incrementNumCols(settings))
SimpleDecrementNumCols ==
    SimpleSetter("decrementNumCols", Simple_decrementNumCols(settings))

NextSimple ==
    \/ SimpleIncrementGameDifficulty
    \/ SimpleDecrementGameDifficulty
    \/ SimpleIncrementNumEnemies
    \/ SimpleDecrementNumEnemies
    \/ SimpleIncrementNumLanes
    \/ SimpleDecrementNumLanes
    \/ SimpleIncrementNumCols
    \/ SimpleDecrementNumCols

SpecSimple == InitSimple /\ [][NextSimple]_vars

(***************** setters and resets, without obstacles *******************)
\* The default grid with the enemy count taken down to 0 and the difficulty
\* at its default or at one of its limits.
InitSettersReset ==
    \E d \in {1, 4, MaxGameDifficulty} : Loaded(init(NewSettings, 4, 7, 0, 200, d))

\* setOrResetGameObjects(), the settings it found being recorded.
CallSetOrResetGameObjects ==
    /\ setOrResetGameObjects(settings)
    /\ result' = [call |-> "setOrResetGameObjects", before |-> settings]
    /\ clicks' = 0
    /\ goal' = FALSE
    /\ successes' = 0
    /\ tickStart' = NoTick
    /\ UNCHANGED <<pendingReset, pc, idx, upCount>>

\* Calls of the lane and column setters over their whole ranges, and resets
\* of the game objects.
NextSettersReset ==
    \/ CallIncrementNumLanes
    \/ CallDecrementNumLanes
    \/ CallIncrementNumCols
    \/ CallDecrementNumCols
    \/ CallSetOrResetGameObjects

SpecSettersReset == InitSettersReset /\ [][NextSettersReset]_vars

(********************* one setter call, recorded ***************************)
\* Settings at and next to the limits of the setters.
SettingSamples ==
    { init(NewSettings, l, c, n, 200, d) : l \in {1, 2, MaxNumLanes - 1, MaxNumLanes},
                              c \in {1, 2, MaxNumCols - 1, MaxNumCols},
                              n \in {0, 1, MaxNumEnemies - 1, MaxNumEnemies},
                              d \in {1, 2, MaxGameDifficulty - 1, MaxGameDifficulty} }

InitSetters ==
    /\ settings \in SettingSamples
    /\ player = setInitialPosition(settings)
    /\ allEnemies = << >>
    /\ streak = 0
    /\ wins = 0
    /\ deaths = 0
    /\ pendingReset = FALSE
    /\ pc = "idle"
    /\ idx = 0
    /\ result = [call |-> "none"]
    /\ upCount = 0
    /\ clicks = 0
    /\ goal = FALSE
    /\ successes = 0
    /\ tickStart = NoTick

\* The first call of a setter: its name, the settings before it and what it
\* returned are recorded.
SetterOnce(name, s2, ret) ==
    /\ result.call = "none"
    /\ settings' = s2
    /\ result' = [call |-> name, before |-> settings, ret |-> ret]
    /\ UNCHANGED <<player, allEnemies, streak, wins, deaths, pendingReset,
                   pc, idx, upCount, clicks, goal, successes, tickStart>>

OnceIncrementGameDifficulty ==
    SetterOnce("incrementGameDifficulty", incrementGameDifficulty(settings),
               incrementGameDifficultyReturn(settings))
OnceDecrementGameDifficulty ==
    SetterOnce("decrementGameDifficulty", decrementGameDifficulty(settings),
               decrementGameDifficultyReturn(settings))
OnceIncrementNumEnemies ==
    SetterOnce("incrementNumEnemies", incrementNumEnemies(settings),
               incrementNumEnemiesReturn(settings))
OnceDecrementNumEnemies ==
    SetterOnce("decrementNumEnemies", decrementNumEnemies(settings),
               decrementNumEnemiesReturn(settings))
OnceIncrementNumLanes ==
    SetterOnce("incrementNumLanes", incrementNumLanes(settings),
               incrementNumLanesReturn(settings))
OnceDecrementNumLanes ==
    SetterOnce("decrementNumLanes", decrementNumLanes(settings),
               decrementNumLanesReturn(settings))
OnceIncrementNumCols ==
    SetterOnce("incrementNumCols", incrementNumCols(settings),
               incrementNumColsReturn(settings))
OnceDecrementNumCols ==
    SetterOnce("decrementNumCols", decrementNumCols(settings),
               decrementNumColsReturn(settings))

NextSetters ==
    \/ OnceIncrementGameDifficulty
    \/ OnceDecrementGameDifficulty
    \/ OnceIncrementNumEnemies
    \/ OnceDecrementNumEnemies
    \/ OnceIncrementNumLanes
    \/ OnceDecrementNumLanes
    \/ OnceIncrementNumCols
    \/ OnceDecrementNumCols

SpecSetters == InitSetters /\ [][NextSetters]_vars

(***************************************************************************)
(*                               Properties                                *)
(***************************************************************************)
\* The configured start position, written out: column floor(numCols / 2),
\* row numRows - 1 = numLanes + 2.
OnStart(s) == [x |-> (s.numCols \div 2) * 101, y |-> (s.numLanes + 2) * 83 - 26]

\* The player stands on a tile of the grid of the current settings.
InGrid ==
    /\ 0 <= player.x /\ player.x <= (settings.numCols - 1) * 101
    /\ 0 <= player.y + 26 /\ player.y + 26 <= (settings.numLanes + 2) * 83

\* C1: when the player pass of a frame (Player.update) runs with the player in
\* row 0, the player is put on the start position and the streak becomes its
\* previous value plus 1.
C1_SuccessTransition ==
    [][(pc = "player" /\ player.y + 26 < 83)
          => (player' = OnStart(settings) /\ streak' = streak + 1)]_vars

\* Two successes in a row happened: the second one found a streak of 1.
C1_Witness == streak = 2 /\ wins = 2 /\ pc # "player" /\ player = OnStart(settings)

\* C2: when an iteration of checkCollisions finds its obstacle colliding with
\* the player, the streak becomes 0 and the player is put on the start
\* position.
C2_FailureTransition ==
    [][(pc = "collide" /\ checkCollision(allEnemies[idx], player))
          => (streak' = 0 /\ player' = OnStart(settings))]_vars

\* A failure that followed a success: it found a streak of 1.
C2_Witness == streak = 0 /\ wins = 1 /\ deaths = 1 /\ player = OnStart(settings)

\* The player p moved one tile in direction d.
OneTile(b, d) ==
    CASE d = "left" -> [x |-> b.x - 101, y |-> b.y]
      [] d = "right" -> [x |-> b.x + 101, y |-> b.y]
      [] d = "up" -> [x |-> b.x, y |-> b.y - 83]
      [] d = "down" -> [x |-> b.x, y |-> b.y + 83]

\* C3 as stated: the recorded handleInput call left the player where it was if
\* it asked for 'left' in column 0, 'right' in column numCols - 1, 'up' in row 0
\* or 'down' in row numRows - 1, and moved it by one tile otherwise.
C3_OneTileOrNothing ==
    (result.call = "handleInput" /\ result.direction \in {"left", "right", "up", "down"}) =>
        LET b == result.before
            d == result.direction
            lastCol == result.settings.numCols - 1
            lastRow == result.settings.numLanes + 3 - 1
            atEdge == \/ d = "left" /\ b.x = 0
                      \/ d = "right" /\ b.x = lastCol * 101
                      \/ d = "up" /\ b.y + 26 = 0
                      \/ d = "down" /\ b.y + 26 = lastRow * 83
        IN  result.after = IF atEdge THEN b ELSE OneTile(b, d)

\* C3, amended: 'right' is refused in column numCols - 1 and in every column
\* beyond it, 'down' in row numRows - 1 and in every row beyond it.
C3_OneTileOrNothingBeyond ==
    (result.call = "handleInput" /\ result.direction \in {"left", "right", "up", "down"}) =>
        LET b == result.before
            d == result.direction
            lastCol == result.settings.numCols - 1
            lastRow == result.settings.numLanes + 3 - 1
            atEdge == \/ d = "left" /\ b.x = 0
                      \/ d = "right" /\ b.x >= lastCol * 101
                      \/ d = "up" /\ b.y + 26 = 0
                      \/ d = "down" /\ b.y + 26 >= lastRow * 83
        IN  result.after = IF atEdge THEN b ELSE OneTile(b, d)

\* 'right' was asked for beyond the last column and refused.
C3_Witness ==
    /\ result.call = "handleInput"
    /\ result.direction = "right"
    /\ result.before.x > (result.settings.numCols - 1) * 101
    /\ result.after = result.before

\* C4 as stated: in every reachable state the player is inside the grid of the
\* current settings.
C4_PlayerInGrid == InGrid

\* C4, amended: whenever no reset is pending the player is inside the grid of
\* the current settings.
C4_PlayerInGridUnlessPending == ~pendingReset => InGrid

\* After a failure and without a pending reset the player stands in the top
\* right corner of a two-column grid.
C4_Witness ==
    /\ ~pendingReset /\ deaths = 1 /\ settings.numCols = 2
    /\ player.x = 101 /\ player.y = -26

\* C5: checkCollision(e, p) is true exactly when the obstacle box
\* [e.x, e.x + 101] x [e.y + 65, e.y + 83 - 30] and the agent box
\* [p.x + 30, p.x + 101 - 30] x [p.y + 45, p.y + 83] are separated on neither
\* axis (on each axis neither interval starts after the end of the other);
\* boxes that touch on an edge collide.
C5_CollidesIffNotDisjoint ==
    result.call = "checkCollision" =>
        LET e == result.e
            p == result.p
            xApart == p.x + 30 > e.x + 101 \/ e.x > p.x + 101 - 30
            yApart == p.y + 45 > e.y + 83 - 30 \/ e.y + 65 > p.y + 83
        IN  result.ret = (~xApart /\ ~yApart)

\* The agent box starts exactly where the obstacle box ends, and the call
\* returned true.
C5_Witness ==
    /\ result.call = "checkCollision"
    /\ result.p.x + 30 = result.e.x + 101
    /\ result.ret = TRUE

\* C6: in the 4 x 7 grid (start column 3, start row 6) k 'up' inputs from the
\* start put the player in row 6 - k, in row 0 after six, further 'up' inputs
\* leave it in row 0, and the run triggers one success: the player pass of
\* a frame that follows the six inputs makes wins and streak 1, and no later
\* frame adds another.
C6_SixUpsOneSuccess ==
    /\ [](/\ settings.numLanes + 3 = 7
          /\ wins = 0 => player.y + 26 = 83 * (IF upCount <= 6 THEN 6 - upCount ELSE 0)
          /\ wins <= 1
          /\ streak = wins
          /\ wins = 1 => upCount >= 6)
    /\ [][(pc = "player" /\ upCount >= 6 /\ wins = 0)
             => (wins' = 1 /\ streak' = 1 /\ player' = [x |-> 3 * 101, y |-> 6 * 83 - 26])]_vars

\* Seven 'up' inputs, a success, and a further frame after it.
C6_Witness ==
    /\ upCount = 7 /\ wins = 1 /\ streak = 1 /\ pc = "player"
    /\ player.y = 6 * 83 - 26

\* Obstacle e2 is what Enemy.update(dt) can make of obstacle e1 under settings s.
Updated(e1, e2, s, dt) ==
    IF e1.x < 101 * s.numCols
    THEN /\ dt.den * e2.x = dt.den * e1.x + dt.num * e1.speed
         /\ e2.y = e1.y /\ e2.speed = e1.speed
    ELSE e2.x < 0

\* C7: a frame runs its passes in this order: the update of every obstacle,
\* then the update of the player (the only pass that can add a win), then the
\* collision pass (the only pass that can add a death); the collision pass
\* starts only after the player pass and changes no obstacle.
C7_PassOrder ==
    [][/\ (pc = "idle" /\ pc' # "idle") =>
            /\ pc' = "player"
            /\ Len(allEnemies') = Len(allEnemies)
            /\ \E dt \in DtChoices : \A i \in 1 .. Len(allEnemies) :
                   Updated(allEnemies[i], allEnemies'[i], settings, dt)
            /\ UNCHANGED <<player, streak, wins, deaths>>
       /\ pc = "player" =>
            /\ pc' = IF Len(allEnemies) = 0 THEN "idle" ELSE "collide"
            /\ UNCHANGED <<allEnemies, deaths>>
       /\ pc = "collide" =>
            /\ pc' \in {"collide", "idle"}
            /\ UNCHANGED <<allEnemies, wins>>
       /\ pc' = "collide" => pc \in {"player", "collide"}
       /\ wins' > wins => pc = "player"
       /\ deaths' > deaths => pc = "collide"]_vars

\* The collision pass of a frame over two obstacles is at its second
\* obstacle; the frame has moved the first obstacle onto the field.
C7_Witness ==
    /\ pc = "collide" /\ idx = 2 /\ Len(allEnemies) = 2
    /\ allEnemies[1].x > 0

\* C8 as stated: the collision pass tests the obstacles one after the other,
\* all of them, every obstacle it finds colliding calls the failure handler,
\* and k obstacles that collide with the player in a frame cause k calls of
\* the failure handler: when the pass ends, deaths has grown by the number of
\* obstacles that were on the player when the pass started.
C8_EveryOverlapFails ==
    [][pc = "collide" =>
         /\ idx \in 1 .. Len(allEnemies)
         /\ IF checkCollision(allEnemies[idx], player)
            THEN deaths' = deaths + 1 /\ streak' = 0
            ELSE UNCHANGED <<player, streak, wins, deaths>>
         /\ IF idx < Len(allEnemies)
            THEN pc' = "collide" /\ idx' = idx + 1
            ELSE pc' = "idle"
         /\ pc' = "idle" => deaths' = tickStart.deaths + tickStart.hits]_vars

\* C8, amended: the collision pass tests the obstacles one after the other,
\* all of them, each against the player where it is at that time, and every
\* obstacle it finds colliding calls the failure handler (deaths grows by
\* one, the streak becomes 0); an obstacle found not colliding changes
\* nothing.  The failure handler moves the player to the start position, so
\* of k >= 1 obstacles that were on the player when the pass started only the
\* first is found colliding: when the pass ends deaths has grown by one.
C8_EveryHitFails ==
    [][pc = "collide" =>
         /\ idx \in 1 .. Len(allEnemies)
         /\ IF checkCollision(allEnemies[idx], player)
            THEN deaths' = deaths + 1 /\ streak' = 0
            ELSE UNCHANGED <<player, streak, wins, deaths>>
         /\ IF idx < Len(allEnemies)
            THEN pc' = "collide" /\ idx' = idx + 1
            ELSE pc' = "idle"
         /\ pc' = "idle" =>
               deaths' = tickStart.deaths + (IF tickStart.hits > 0 THEN 1 ELSE 0)]_vars

\* The collision pass of a frame has ended: two obstacles were on the player
\* when it started, and the frame counted one failure.
C8_Witness ==
    /\ pc = "idle" /\ tickStart.hits = 2
    /\ deaths = tickStart.deaths + 1 /\ streak = 0
    /\ player = OnStart(settings)

\* C9: a click on a configuration button leaves a reset pending; while it
\* is pending no frame pass runs (the obstacle array and the
\* scoreboard are left alone) and the step that ends it is the full reset:
\* as many fresh obstacles as the settings ask for, the player on the start
\* position, streak, wins and deaths 0.  (A fresh obstacle is left of the
\* field, in a row and with a speed a roll can give, the upper limit of the
\* roll included.)
C9_ResetBeforeNextTick ==
    [][/\ clicks' > clicks => pendingReset'
       /\ pendingReset =>
            \/ /\ pendingReset'
               /\ pc' = "idle"
               /\ UNCHANGED <<allEnemies, streak, wins, deaths>>
            \/ /\ ~pendingReset'
               /\ pc' = "idle"
               /\ Len(allEnemies') = settings'.numEnemies
               /\ \A i \in 1 .. Len(allEnemies') :
                     /\ allEnemies'[i].x < 0
                     /\ allEnemies'[i].y \in
                           { r * 83 - 26 : r \in 1 .. settings'.numLanes + 1 }
                     /\ allEnemies'[i].speed \in
                           { 200 + 50 * d : d \in 1 .. settings'.gameDifficulty + 1 }
               /\ player' = OnStart(settings')
               /\ streak' = 0 /\ wins' = 0 /\ deaths' = 0]_vars

\* A click left a reset pending in a game that has a win, a player away
\* from the start position and an obstacle array of the wrong length.
C9_Witness ==
    /\ pendingReset /\ wins > 0
    /\ player # OnStart(settings)
    /\ Len(allEnemies) # settings.numEnemies

\* C10: the setters keep lane count in [1, 10], column count in [1, 20], enemy
\* count in [0, 20] and difficulty in [1, 20].
C10_SettingsInBounds ==
    /\ settings.numLanes \in 1 .. 10
    /\ settings.numCols \in 1 .. 20
    /\ settings.numEnemies \in 0 .. 20
    /\ settings.gameDifficulty \in 1 .. 20

\* Every setting was driven to its upper limit.
C10_Witness ==
    /\ settings.numLanes = 10 /\ settings.numCols = 20
    /\ settings.numEnemies = 20 /\ settings.gameDifficulty = 20

\* The setter called name was asked to go beyond its limit in settings s.
AtLimit(name, s) ==
    \/ name = "incrementGameDifficulty" /\ s.gameDifficulty = 20
    \/ name = "decrementGameDifficulty" /\ s.gameDifficulty = 1
    \/ name = "incrementNumEnemies" /\ s.numEnemies = 20
    \/ name = "decrementNumEnemies" /\ s.numEnemies = 0
    \/ name = "incrementNumLanes" /\ s.numLanes = 10
    \/ name = "decrementNumLanes" /\ s.numLanes = 1
    \/ name = "incrementNumCols" /\ s.numCols = 20
    \/ name = "decrementNumCols" /\ s.numCols = 1

\* C11: an increment asked for at the upper limit, or a decrement at the lower
\* limit, changes no setting (the targeted one or any other) and returns
\* nothing (undefined, never an exception).
C11_RefusedIsNoOp ==
    (result.call \notin {"none", "setter"} /\ AtLimit(result.call, result.before)) =>
        (settings = result.before /\ result.ret = << >>)

\* decrementNumEnemies was called with no enemy left and refused.
C11_Witness ==
    /\ result.call = "decrementNumEnemies"
    /\ result.before.numEnemies = 0
    /\ settings = result.before
    /\ result.ret = << >>

\* C12: read after any sequence of setter calls, getNumRows() is the lane
\* count plus 3, the native canvas width the column count times 101 and the
\* native canvas height the row count times 83 plus 51 plus 37, of the
\* settings as they are at the time of the read.
C12_DerivedFromCurrent ==
    result.call = "getters" =>
        /\ result.numRows = settings.numLanes + 3
        /\ result.nativeCanvasWidth = settings.numCols * 101
        /\ result.nativeCanvasHeight = (settings.numLanes + 3) * 83 + 51 + 37

\* The getters were read after the setters had changed both the lane count and
\* the column count.
C12_Witness ==
    /\ result.call = "getters"
    /\ settings.numLanes = 10 /\ settings.numCols = 1
    /\ result.numRows = 13 /\ result.nativeCanvasWidth = 101
    /\ result.nativeCanvasHeight = 1167

\* The fraction q is the scale sc times the whole number k.
IsScaleTimes(q, sc, k) == q.den > 0 /\ q.num * sc.den = sc.num * k * q.den

\* C14: every scaled getter returns the scale times its native value (column
\* width 101, row height 83, tile height 171, dy -26, native canvas width and
\* height), and the native getters return the same value under every scale.
C14_ScaledIsScaleTimesNative ==
    result.call = "getters" =>
        LET sc == settings.scale
            w == settings.numCols * 101
            h == (settings.numLanes + 3) * 83 + 51 + 37
        IN  /\ result.scalingFactor = sc
            /\ IsScaleTimes(result.colWidth, sc, 101)
            /\ IsScaleTimes(result.rowHeight, sc, 83)
            /\ IsScaleTimes(result.tileHeight, sc, 171)
            /\ IsScaleTimes(result.dy, sc, -26)
            /\ IsScaleTimes(result.canvasWidth, sc, w)
            /\ IsScaleTimes(result.canvasHeight, sc, h)
            /\ result.nativeColWidth = 101
            /\ result.nativeRowHeight = 83
            /\ result.nativeDY = -26
            /\ result.nativeCanvasWidth = w
            /\ result.nativeCanvasHeight = h

\* The getters were read under scale 1/2 in a grid that is not the initial
\* one: tile height 171/2, canvas 404 x 376.
C14_Witness ==
    /\ result.call = "getters"
    /\ settings.scale = [num |-> 1, den |-> 2]
    /\ settings.numLanes = 5 /\ settings.numCols = 8
    /\ result.tileHeight = [num |-> 171, den |-> 2]
    /\ result.canvasWidth = [num |-> 404, den |-> 1]
    /\ result.canvasHeight = [num |-> 376, den |-> 1]
    /\ result.nativeCanvasWidth = 808

\* C13: in every grid the setters reach, the start column is floor(numCols / 2)
\* and the start row numRows - 1, both inside the grid (also with one column),
\* and setInitialPosition puts the player on that tile of the current
\* settings.
C13_StartInsideGrid ==
    result.call = "setInitialPosition" =>
        LET c == result.startCol
            r == result.startRow
        IN  /\ 2 * c <= settings.numCols /\ settings.numCols < 2 * c + 2
            /\ r = settings.numLanes + 3 - 1
            /\ 0 <= c /\ c <= settings.numCols - 1
            /\ 0 <= r /\ r <= settings.numLanes + 3 - 1
            /\ player = [x |-> c * 101, y |-> r * 83 - 26]

\* setInitialPosition ran in a grid of one column and ten lanes.
C13_Witness ==
    /\ result.call = "setInitialPosition"
    /\ settings.numCols = 1 /\ settings.numLanes = 10
    /\ player = [x |-> 0, y |-> 12 * 83 - 26]

\* C15: a re-roll gives x < 0 with x = -101 k for an integer k in
\* [1, numCols - 1] and y = 83 r - 26 for a lane r in [1, numLanes], in every
\* grid, one column included.
C15_RerollLeftOfField ==
    result.call = "setRandomValues" =>
        LET e == allEnemies[1] IN
        /\ e.x < 0
        /\ \E k \in 1 .. (settings.numCols - 1) : e.x = -101 * k
        /\ \E r \in 1 .. settings.numLanes : e.y = 83 * r - 26

\* C16: the update of an obstacle does one of two things: left of
\* numCols x 101 it adds dt x speed to x, dt being the elapsed time handed to
\* the frame (a fraction dt.num / dt.den), and keeps y and speed; otherwise it
\* re-rolls x, y and speed and x is the rolled value (-101 k, the upper limit
\* of each roll included), not advanced in that frame.
C16_AdvanceOrReroll ==
    [][(pc = "idle" /\ pc' = "player") =>
          \A i \in 1 .. Len(allEnemies) :
             LET e == allEnemies[i]
                 e2 == allEnemies'[i]
                 dt == tickStart'.dt
             IN  IF e.x < settings.numCols * 101
                 THEN /\ dt.den * (e2.x - e.x) = dt.num * e.speed
                      /\ e2.y = e.y /\ e2.speed = e.speed
                 ELSE /\ \E k \in 1 .. settings.numCols : e2.x = -101 * k
                      /\ \E r \in 1 .. settings.numLanes + 1 : e2.y = 83 * r - 26
                      /\ \E d \in 1 .. settings.gameDifficulty + 1 :
                            e2.speed = settings.baseEnemySpeed + 50 * d]_vars

\* The obstacle pass of a frame of half a second has advanced two obstacles
\* that a roll had put at x = -101, the first by half of its speed 250 and
\* the second by half of its speed 300.
C16_Witness ==
    /\ pc = "player" /\ Len(allEnemies) = 2
    /\ tickStart.dt = [num |-> 1, den |-> 2]
    /\ allEnemies[1].speed = 250 /\ allEnemies[1].x = -101 + 125
    /\ allEnemies[2].speed = 300 /\ allEnemies[2].x = -101 + 150

\* The speeds a re-roll can give under settings s.
PossibleSpeeds(s) == { e.speed : e \in setRandomValues(s) }

\* C17: a rolled speed is baseSpeed + 50 k for an integer k in
\* [1, difficulty]; there are exactly `difficulty` possible speeds, the highest
\* is baseSpeed + 50 x difficulty, and a step that raises the difficulty by 1
\* adds one possible speed, 50 above the former top speed.
C17_SpeedsByDifficulty ==
    /\ [](/\ result.call = "setRandomValues" =>
               \E k \in 1 .. settings.gameDifficulty :
                   allEnemies[1].speed = settings.baseEnemySpeed + 50 * k
          /\ Cardinality(PossibleSpeeds(settings)) = settings.gameDifficulty
          /\ \A v \in PossibleSpeeds(settings) :
                 v <= settings.baseEnemySpeed + 50 * settings.gameDifficulty
          /\ settings.baseEnemySpeed + 50 * settings.gameDifficulty
                 \in PossibleSpeeds(settings))
    /\ [][settings'.gameDifficulty = settings.gameDifficulty + 1 =>
             PossibleSpeeds(settings') = PossibleSpeeds(settings) \cup
                { settings.baseEnemySpeed + 50 * settings.gameDifficulty + 50 }]_vars

C19_GoalThenSuccess ==
    [][(pc = "player" /\ goal) => (wins' = wins + 1 /\ streak' = streak + 1)]_vars

\* C19, amended: once a key input has put the player in row 0, the player
\* pass of the next frame is a success if the player is still in row 0, and
\* changes nothing if a later input has taken it out of row 0.
C19_GoalThenSuccessIfStillThere ==
    [][(pc = "player" /\ goal) =>
          IF player.y + 26 < 83
          THEN wins' = wins + 1 /\ streak' = streak + 1 /\ player' = OnStart(settings)
          ELSE UNCHANGED <<player, streak, wins, deaths>>]_vars

\* A key input put the player in row 0, a 'down' input took it to row 1, and
\* the player pass of the next frame is about to run.
C19_Witness ==
    /\ goal /\ pc = "player" /\ player.y + 26 = 83 /\ wins = 1

\* The step is a success transition: the player pass found the player in row 0.
IsSuccess ==
    /\ pc = "player" /\ player.y + 26 < 83
    /\ wins' = wins + 1 /\ streak' = streak + 1 /\ deaths' = deaths

\* The step is a failure transition: the collision pass found its obstacle
\* colliding with the player.
IsFailure ==
    /\ pc = "collide" /\ checkCollision(allEnemies[idx], player)
    /\ deaths' = deaths + 1 /\ streak' = 0 /\ wins' = wins

\* C20 as stated: streak, wins and deaths change only in a success or failure
\* transition; every other step (key input, obstacle update and re-roll,
\* config setter, setScalingFactor, ...) leaves the three values unchanged.
C20_ScoreOnlyBySuccessOrFailure ==
    [][<<streak, wins, deaths>>' # <<streak, wins, deaths>> =>
          (IsSuccess \/ IsFailure)]_vars

\* The window is smaller than the native canvas: the scale is a fraction
\* between 0 and 1.
ScaledDown(s) == 0 < s.scale.num /\ s.scale.num < s.scale.den

\* C20, amended: streak, wins and deaths change only in a success transition,
\* in a failure transition, or in the reset of the game objects that follows
\* a click on a configuration button, which sets the three to 0.
C20_ScoreOnlyBySuccessFailureOrReset ==
    [][<<streak, wins, deaths>>' # <<streak, wins, deaths>> =>
          \/ IsSuccess
          \/ IsFailure
          \/ /\ pendingReset /\ ~pendingReset'
             /\ streak' = 0 /\ wins' = 0 /\ deaths' = 0]_vars

\* After a success the window was resized, a key input moved the player and a
\* configuration button was clicked; the scoreboard still shows the success.
C20_Witness ==
    /\ wins = 1 /\ streak = 1 /\ deaths = 0
    /\ ScaledDown(settings) /\ pendingReset
    /\ player # OnStart(settings)
    /\ Len(allEnemies) > 0 /\ allEnemies[1].x > 0

\* C21: a key event that is none of the four arrow keys (handleInput called
\* with undefined or with another string) changes nothing: the player, the
\* obstacles, the scoreboard and the settings stay as they are, and the
\* handler ends normally (the call is recorded).
C21_UnknownKeyIgnored ==
    [][(result' # result /\ result'.call = "handleInput"
          /\ result'.direction \notin {"left", "right", "up", "down"}) =>
             /\ result'.after = result'.before
             /\ UNCHANGED <<player, allEnemies, streak, wins, deaths, settings,
                            pendingReset>>]_vars

\* An unknown key arrived in a game that has a success and a failure, with the
\* player away from the start and the obstacle on the field.
C21_Witness ==
    /\ result.call = "handleInput" /\ result.direction = "space"
    /\ wins = 1 /\ deaths = 1
    /\ player # OnStart(settings) /\ player = result.before
    /\ allEnemies[1].x > 0

\* C22: in every reachable state the streak is the number of success
\* transitions since the most recent failure transition, or since the last
\* reset or the start of the game if there was no failure since.
C22_StreakCountsSuccesses == streak = successes

\* A success followed a failure.
C22_Witness == deaths = 1 /\ wins = 1 /\ successes = 1 /\ streak = 1

\* C23: the game has no terminal state.  Between frames every directional
\* input can be taken, and so can the next frame (or, after a click, the reset
\* that precedes it) as long as the explored number of wins and deaths is not
\* used up; inside a frame the next pass can be taken; and every success or
\* failure transition leaves the player on the start position, from where it
\* travels again.
C23_NoTerminalState ==
    /\ [](/\ pc = "idle" =>
               \A key \in {"left", "right", "up", "down"} :
                   ENABLED (player' = handleInput(player, settings, key))
          /\ (pc = "idle" /\ ~pendingReset /\ wins + deaths < MaxCount) =>
                ENABLED TickUpdateEnemies
          /\ (pc = "idle" /\ pendingReset) => ENABLED EngineReset
          /\ pc = "player" => ENABLED TickUpdatePlayer
          /\ pc = "collide" => ENABLED TickCheckCollision)
    /\ [][(wins' # wins \/ deaths' # deaths) =>
             /\ player' = OnStart(settings)
             /\ pc' \in {"idle", "collide"}]_vars

\* After a failure the player has travelled from the start to row 0 again and
\* the next frame can run.
C23_Witness ==
    /\ deaths = 1 /\ wins = 0 /\ pc = "idle" /\ ~pendingReset
    /\ player.y + 26 = 0
    /\ ENABLED TickUpdateEnemies

\* The step is the run of a handler between two frames (key-up listener,
\* button callback, resize handler) and not the reset the engine makes.
HandlerStep ==
    /\ pc = "idle" /\ pc' = "idle"
    /\ ~(pendingReset /\ ~pendingReset')

\* C24 as stated: no handler that runs between frames writes the settings, the
\* scoreboard, the obstacles or the player.
C24_HandlersWriteNothing ==
    [][HandlerStep =>
          UNCHANGED <<settings, streak, wins, deaths, allEnemies, player>>]_vars

\* C24, amended: no handler that runs between frames writes the scoreboard or
\* the obstacles; a handler writes either the player (key-up listener) or the
\* settings (button callback, resize handler), never both.
C24_HandlersWritePlayerOrSettings ==
    [][HandlerStep =>
          /\ UNCHANGED <<streak, wins, deaths, allEnemies>>
          /\ player' = player \/ settings' = settings]_vars

\* After a failure, handlers have moved the player, resized the window and
\* changed the settings; the obstacle and the scoreboard are those the last
\* frame left.
C24_Witness ==
    /\ deaths = 1 /\ wins = 0 /\ pendingReset
    /\ ScaledDown(settings)
    /\ player # OnStart(settings)
    /\ Len(allEnemies) > 0 /\ allEnemies[1].x > 0

IsScaledPosition(pos, e, sc) ==
    IsScaleTimes(pos[1], sc, e.x) /\ IsScaleTimes(pos[2], sc, e.y)

\* C26: the scaled position of every entity is its native position times the
\* scale in force, a change of the scale changes no native position, and the
\* scaled positions after the scale is changed and set back are those before.
C26_ScaledFollowsScale ==
    /\ [](result.call = "scaleRoundTrip" =>
            /\ IsScaledPosition(result.before.player, result.player, result.scale)
            /\ IsScaledPosition(result.between.player, result.player, result.other)
            /\ \A i \in DOMAIN result.enemies :
                  /\ IsScaledPosition(result.before.enemies[i],
                                      result.enemies[i], result.scale)
                  /\ IsScaledPosition(result.between.enemies[i],
                                      result.enemies[i], result.other)
            /\ result.back = result.scale
            /\ result.after = result.before)
    /\ [][(settings' # settings \/ (result' # result /\ result'.call = "scaleRoundTrip"))
            => UNCHANGED <<player, allEnemies>>]_vars
    /\ [](LET now == ScaledPositions(player, allEnemies, settings)
          IN  /\ IsScaledPosition(now.player, player, settings.scale)
              /\ DOMAIN now.enemies = DOMAIN allEnemies
              /\ \A i \in DOMAIN allEnemies :
                    IsScaledPosition(now.enemies[i], allEnemies[i], settings.scale))

\* At scale 1/2 (the window half as wide as the field), with the player moved
\* off its start tile and the obstacle inside the field, the scale was
\* changed to 3 and set back.
C26_Witness ==
    /\ result.call = "scaleRoundTrip"
    /\ result.scale = [num |-> 1, den |-> 2]
    /\ result.other = [num |-> 3, den |-> 1]
    /\ settings.scale = [num |-> 1, den |-> 2]
    /\ player = result.player /\ player # OnStart(settings)
    /\ allEnemies = result.enemies /\ allEnemies[1].x > 0
    /\ result.between # result.before
    /\ result.after = result.before

\* The setting a setter is about.
TargetSetting(name, s) ==
    CASE name \in {"incrementGameDifficulty", "decrementGameDifficulty"} -> s.gameDifficulty
      [] name \in {"incrementNumEnemies", "decrementNumEnemies"} -> s.numEnemies
      [] name \in {"incrementNumLanes", "decrementNumLanes"} -> s.numLanes
      [] name \in {"incrementNumCols", "decrementNumCols"} -> s.numCols

\* C27: every call of an increment/decrement setter returns a number, the
\* value its setting has after the call, calls at a bound included.
C27_ReturnsUpdatedValue ==
    result.call # "none" => result.ret = <<TargetSetting(result.call, settings)>>

\* The game objects are those setOrResetGameObjects builds for settings s:
\* numEnemies obstacles, each left of the field by a number of columns, in a
\* row and with a speed that a roll under s can give (the upper limit of each
\* roll included); the player on the start tile; streak, wins and deaths 0.
CleanFor(s, p, es, st, w, d) ==
    /\ Len(es) = s.numEnemies
    /\ \A i \in 1 .. Len(es) :
          /\ es[i].x \in { -101 * k : k \in 1 .. s.numCols }
          /\ es[i].y \in { r * 83 - 26 : r \in 1 .. s.numLanes + 1 }
          /\ es[i].speed \in { 200 + 50 * k : k \in 1 .. s.gameDifficulty + 1 }
    /\ p = OnStart(s)
    /\ st = 0 /\ w = 0 /\ d = 0

\* C28: setOrResetGameObjects, at load and at every reset, leaves the settings
\* as they are and the game objects clean for them.
C28_ResetLeavesCleanState ==
    /\ CleanFor(settings, player, allEnemies, streak, wins, deaths)
    /\ [][(pendingReset /\ ~pendingReset') =>
             /\ settings' = settings
             /\ CleanFor(settings', player', allEnemies', streak', wins', deaths')]_vars

\* A reset found a win and a failure on the scoreboard, the player off the
\* start tile and fewer obstacles than the settings ask for, and left two
\* fresh obstacles.
C28_Witness ==
    /\ result.call = "setOrResetGameObjects"
    /\ result.scored /\ result.failed
    /\ ~result.onStart
    /\ result.held < 2
    /\ ~pendingReset
    /\ Len(allEnemies) = 2 /\ wins = 0 /\ deaths = 0 /\ streak = 0
    /\ player = OnStart(settings)

\* The setter called name was asked, in settings s, for a value outside the
\* bounds of the simpler CONFIG.
SimpleAtLimit(name, s) ==
    \/ name = "incrementGameDifficulty" /\ s.gameDifficulty = 9
    \/ name = "decrementGameDifficulty" /\ s.gameDifficulty = 2
    \/ name = "incrementNumEnemies" /\ s.numEnemies = 20
    \/ name = "decrementNumEnemies" /\ s.numEnemies = 2
    \/ name = "incrementNumLanes" /\ s.numLanes = 5
    \/ name = "decrementNumLanes" /\ s.numLanes = 1
    \/ name = "incrementNumCols" /\ s.numCols = 11
    \/ name = "decrementNumCols" /\ s.numCols = 2

\* C29: in the simpler CONFIG the setters keep lane count in [1, 5], column
\* count in [2, 11], enemy count in [2, 20] and difficulty in [2, 9], and a call
\* that asks for a value outside these bounds changes no setting.
C29_SimpleSettingsInBounds ==
    /\ settings.numLanes \in 1 .. 5
    /\ settings.numCols \in 2 .. 11
    /\ settings.numEnemies \in 2 .. 20
    /\ settings.gameDifficulty \in 2 .. 9
    /\ (result.call # "none" /\ SimpleAtLimit(result.call, result.before)) =>
          settings = result.before

\* decrementNumEnemies was called with two enemies left and refused, the other
\* settings having been driven from their lower to their upper limits.
C29_Witness ==
    /\ result.call = "decrementNumEnemies"
    /\ result.before.numEnemies = 2
    /\ settings = result.before
    /\ settings.numLanes = 5 /\ settings.numCols = 11 /\ settings.gameDifficulty = 9

\* C30: when a frame ends, the player stands in one of the rows 1 .. numRows - 1
\* (row 0 is left by the player pass of the frame), and no collision pass
\* runs with the player in row 0.
C30_RowAtEndOfTick ==
    /\ [][(pc # "idle" /\ pc' = "idle") =>
             player'.y + 26 \in { r * 83 : r \in 1 .. settings'.numLanes + 2 }]_vars
    /\ [](pc = "collide" => player.y + 26 >= 83)

\* A frame with two obstacles has ended after the player reached row 0: the
\* success is counted and the player is back in the bottom row.
C30_Witness ==
    /\ pc = "idle" /\ wins = 1 /\ streak = 1 /\ deaths = 0
    /\ Len(allEnemies) = 2 /\ allEnemies[2].x > 0
    /\ player.y + 26 = (settings.numLanes + 2) * 83
    /\ ~goal /\ successes = 1

\* C31: for a player and an obstacle that both stand on rows of the grid,
\* checkCollision returns true only when they are in the same row; a player in
\* row 0 or in one of the two bottom rows does not collide with an obstacle in
\* a row that a roll under the current settings can give.
C31_AlignedCollideInSameRowOnly ==
    result.call = "checkCollision" =>
        /\ result.ret => result.e.y = result.p.y
        /\ (/\ result.p.y + 26 \in { 0, (settings.numLanes + 1) * 83,
                                       (settings.numLanes + 2) * 83 }
            /\ result.e.y \in { e.y : e \in setRandomValues(settings) })
              => ~result.ret

\* C32: a frame applies the failure transition at most once: deaths is at most
\* one more than when the frame started, and once the collision pass has found
\* a hit the player is on the start tile, where no obstacle overlaps it.
C32_AtMostOneFailurePerTick ==
    /\ deaths \in {tickStart.deaths, tickStart.deaths + 1}
    /\ (pc = "collide" /\ deaths = tickStart.deaths + 1) =>
          /\ player = OnStart(settings)
          /\ \A i \in 1 .. Len(allEnemies) : ~checkCollision(allEnemies[i], player)

\* Two obstacles at the same place: the collision pass found the first one on
\* the player, counted one failure, and goes on with the second.
C32_Witness ==
    /\ pc = "collide" /\ idx = 2
    /\ Len(allEnemies) = 2 /\ allEnemies[1] = allEnemies[2]
    /\ allEnemies[1].x > 0
    /\ deaths = tickStart.deaths + 1 /\ tickStart.deaths = 1

\* C33: a frame applies a success or a failure, never both: wins and deaths
\* together are at most one more than when the frame started; a player pass
\* that finds the player below row 0 adds no win, and after a win the collision
\* pass finds no obstacle on the player.
C33_NoSuccessAndFailureInOneTick ==
    /\ [](/\ wins \in {tickStart.wins, tickStart.wins + 1}
          /\ (wins - tickStart.wins) + (deaths - tickStart.deaths) <= 1
          /\ (pc = "collide" /\ wins = tickStart.wins + 1) =>
                ~checkCollision(allEnemies[idx], player))
    /\ [][(pc = "player" /\ player.y + 26 >= 83) => wins' = wins]_vars

\* The player pass of a frame counted a success and the collision pass of the
\* same frame is looking at an obstacle that is in the player's column.
C33_Witness ==
    /\ pc = "collide" /\ wins = tickStart.wins + 1 /\ deaths = tickStart.deaths
    /\ allEnemies[idx].x - player.x \in -71 .. 71
    /\ allEnemies[idx].y + 26 = settings.numLanes * 83

\* C34: the two rectangles checkCollision builds are well formed: left <= right
\* and top <= bottom, for the obstacle and for the agent.
C34_BoxesWellFormed ==
    result.call = "checkCollisionBoxes" =>
        /\ result.boxes.eLeft <= result.boxes.eRight
        /\ result.boxes.eTop <= result.boxes.eBottom
        /\ result.boxes.pLeft <= result.boxes.pRight
        /\ result.boxes.pTop <= result.boxes.pBottom

\* C35: the player always stands exactly on a tile: x is a multiple of 101 and
\* y + 26 a multiple of 83, neither negative, so that getCurrentCol() and
\* getCurrentRow() are whole numbers and the edge tests of handleInput compare
\* the exact column and row.
C35_PlayerTileAligned ==
    /\ player.x >= 0 /\ player.x % 101 = 0
    /\ player.y + 26 >= 0 /\ (player.y + 26) % 83 = 0
    /\ getCurrentCol(player) * 101 = player.x
    /\ getCurrentRow(player) * 83 - 26 = player.y
    /\ ColGreater(player, 0) <=> getCurrentCol(player) > 0
    /\ ColLess(player, settings.numCols - 1) <=> getCurrentCol(player) < settings.numCols - 1
    /\ RowGreater(player, 0) <=> getCurrentRow(player) > 0
    /\ RowLess(player, getNumRows(settings) - 1)
          <=> getCurrentRow(player) < getNumRows(settings) - 1

\* In a window narrower than the field (scale 1/2), after a failure, key
\* inputs have taken the player to the left column of row 0.
C35_Witness ==
    /\ settings.scale = [num |-> 1, den |-> 2] /\ deaths = 1 /\ pc = "idle"
    /\ settings.numCols = 2
    /\ player.x = 0 /\ player.y + 26 = 0

\* The settings s with the scale replaced by k.
AtScale(s, k) == [s EXCEPT !.scale = k]

\* The scales the settings s could have instead of their own: those a direct
\* call can set and those a resize of the window sets.
OtherScales(s) == Scales \cup { scaleCanvas(s, v[1], v[2]).scale : v \in Viewports }

\* C36: the game logic does not depend on the display scale.  In every state,
\* whatever the scale had been set to instead, each operation of the game (key
\* input, obstacle update and re-roll, player update, collision test and
\* handling, start position, reset, setter) gives the same native result, so
\* two runs that differ only in their setScalingFactor calls stay equal step
\* by step on player, obstacles, collision results and scoreboard; and a
\* change of the scale changes nothing but the scale.
C36_LogicIndependentOfScale ==
    /\ [](\A k \in OtherScales(settings) :
            LET s2 == AtScale(settings, k) IN
            /\ \A key \in Keys :
                  handleInput(player, s2, key) = handleInput(player, settings, key)
            /\ \A i \in 1 .. Len(allEnemies), dt \in DtChoices :
                  /\ EnemyUpdate(allEnemies[i], s2, dt)
                        = EnemyUpdate(allEnemies[i], settings, dt)
                  /\ checkCollisionsStep(Game, s2, allEnemies[i])
                        = checkCollisionsStep(Game, settings, allEnemies[i])
            /\ setRandomValues(s2) = setRandomValues(settings)
            /\ PlayerUpdate(Game, s2) = PlayerUpdate(Game, settings)
            /\ die(Game, s2) = die(Game, settings)
            /\ win(Game, s2) = win(Game, settings)
            /\ setInitialPosition(s2) = setInitialPosition(settings)
            /\ ResetSettings(s2) = AtScale(ResetSettings(settings), k)
            /\ incrementNumLanes(s2) = AtScale(incrementNumLanes(settings), k)
            /\ decrementNumLanes(s2) = AtScale(decrementNumLanes(settings), k)
            /\ incrementNumCols(s2) = AtScale(incrementNumCols(settings), k)
            /\ decrementNumCols(s2) = AtScale(decrementNumCols(settings), k)
            /\ incrementNumEnemies(s2) = AtScale(incrementNumEnemies(settings), k)
            /\ decrementNumEnemies(s2) = AtScale(decrementNumEnemies(settings), k)
            /\ incrementGameDifficulty(s2) = AtScale(incrementGameDifficulty(settings), k)
            /\ decrementGameDifficulty(s2) = AtScale(decrementGameDifficulty(settings), k))
    /\ [][settings'.scale # settings.scale =>
             /\ settings' = AtScale(settings, settings'.scale)
             /\ UNCHANGED <<player, allEnemies, streak, wins, deaths, pendingReset,
                            pc, idx>>]_vars

\* The window is half as wide as the field (scale 1/2) and an obstacle is
\* past the right edge of the scaled canvas but inside the native field, while
\* the player stands in the right column of a lane.
C36_Witness ==
    /\ settings.scale = [num |-> 1, den |-> 2] /\ pc = "idle" /\ ~pendingReset
    /\ settings.numCols = 2 /\ player.x = 101
    /\ player.y + 26 = 83
    /\ Len(allEnemies) > 0 /\ wins = 1 /\ deaths = 1
    /\ allEnemies[1].x >= 101
    /\ allEnemies[1].x < getNativeCanvasWidth(settings)

\* C37: the streak is between 0 and wins, and equals wins as long as there is
\* no failure; but for the reset of the game objects, wins and deaths never
\* decrease, a success transition adds exactly 1 to wins, a failure transition
\* exactly 1 to deaths, and no other step changes either.
C37_ScoreboardOrdered ==
    /\ [](/\ 0 <= streak /\ streak <= wins
          /\ 0 <= deaths
          /\ deaths = 0 => streak = wins)
    /\ [][~(pendingReset /\ ~pendingReset') =>
             /\ wins' = IF pc = "player" /\ player.y + 26 < 83
                        THEN wins + 1 ELSE wins
             /\ deaths' = IF pc = "collide" /\ checkCollision(allEnemies[idx], player)
                          THEN deaths + 1 ELSE deaths]_vars

\* A success was followed by a failure: the streak is below wins, and a click
\* has asked for the reset.
C37_Witness ==
    /\ wins = 1 /\ deaths = 1 /\ streak = 0
    /\ pendingReset /\ pc = "idle"
    /\ player = OnStart(settings)

\* C38: a reset keeps the configuration: the settings are initialised in every
\* state the setters reach (the lane count is never 0), so the reset does not
\* call init, and lane count, column count, enemy count, base speed and
\* difficulty are after a reset what they were before it.
C38_ResetKeepsConfig ==
    /\ [](/\ settings.numLanes # 0
          /\ ResetSettings(settings) = settings
          /\ result.call = "setOrResetGameObjects" => settings = result.before)
    /\ [][(result' # result /\ result'.call = "setOrResetGameObjects") =>
             /\ settings'.numLanes = settings.numLanes
             /\ settings'.numCols = settings.numCols
             /\ settings'.numEnemies = settings.numEnemies
             /\ settings'.baseEnemySpeed = settings.baseEnemySpeed
             /\ settings'.gameDifficulty = settings.gameDifficulty
             /\ result'.before = settings]_vars

\* The lane count was taken down to its lower limit and the column count up to
\* its upper limit, away from the values of init(4, 7, ...), and the reset
\* that followed left both as they were.
C38_Witness ==
    /\ result.call = "setOrResetGameObjects"
    /\ result.before.numLanes = 1 /\ result.before.numCols = 20
    /\ settings = result.before
    /\ player = OnStart(settings)

\* C39: with frames that never stop, every obstacle is at or past the right
\* edge of the field again and again, and is re-rolled (taken back to the left
\* of the field) again and again.
C39_EveryObstacleRerolledAgain ==
    \A i \in 1 .. 2 :
        /\ []<>(allEnemies[i].x >= colWidth * settings.numCols)
        /\ []<>(result.call = "update" /\ i \in result.rerolled /\ allEnemies[i].x < 0)
        /\ []<>(allEnemies[i].x < colWidth * settings.numCols)

\* With base speed 0, a frame has re-rolled the first obstacle while the
\* second one, at the lowest speed there is, is still on the field.
C39_Witness ==
    /\ settings.baseEnemySpeed = 0
    /\ result.call = "update" /\ result.rerolled = {1}
    /\ allEnemies[1].x < 0
    /\ allEnemies[2].x > 0 /\ allEnemies[2].x < colWidth * settings.numCols
    /\ allEnemies[2].speed = 50

====
